---------------------------- MODULE Spec2Model ----------------------------
(***************************************************************************)
(* A model of glassnet's connection discovery and enrichment pipeline:     *)
(* NetworkMonitor (src/src/monitors/network-monitor.js), DNSResolver and   *)
(* ProcessUtils (src/unnamed/part_000).                                    *)
(*                                                                         *)
(* JavaScript strings are sequences of one-character strings, so that      *)
(* includes, startsWith, lastIndexOf, substring and the regular            *)
(* expressions of the source are computed, not assumed.  undefined, null   *)
(* and NaN are the distinguished values UNDEF, NULL and NaN.               *)
(*                                                                         *)
(* Time is Date.now() counted in units of 2.5 minutes.                     *)
(***************************************************************************)
EXTENDS Integers, Sequences, FiniteSets, TLC

----------------------------------------------------------------------------
(* JavaScript values                                                       *)

UNDEF == <<"#undefined">>
NULL == <<"#null">>
NaN == 0 - 1
UndefNum == 0 - 2

\* !x for a string or an absent value
Falsy(s) == s = <<>> \/ s = UNDEF \/ s = NULL

Digits == {"0","1","2","3","4","5","6","7","8","9"}

IsWs(ch) == ch \in {" ", "\t"}

\* s.substring(from) / s.substring(from, to), 0-based as in JavaScript
Substring(s, from, to) == SubSeq(s, from + 1, to)

\* s.startsWith(p)
StartsWith(s, p) == Len(p) <= Len(s) /\ SubSeq(s, 1, Len(p)) = p

\* does p occur in s at 0-based offset i
OccursAt(s, p, i) == i + Len(p) <= Len(s) /\ SubSeq(s, i + 1, i + Len(p)) = p

\* s.indexOf(p, from), 0-based; -1 when absent
RECURSIVE IndexOfFrom(_, _, _)
IndexOfFrom(s, p, from) ==
  IF from + Len(p) > Len(s) THEN 0 - 1
  ELSE IF OccursAt(s, p, from) THEN from
  ELSE IndexOfFrom(s, p, from + 1)

\* s.includes(p)
Includes(s, p) == IndexOfFrom(s, p, 0) # -1

\* s.lastIndexOf(p, from), 0-based; -1 when absent
RECURSIVE LastIndexOfFrom(_, _, _)
LastIndexOfFrom(s, p, from) ==
  IF from < 0 THEN 0 - 1
  ELSE IF OccursAt(s, p, from) THEN from
  ELSE LastIndexOfFrom(s, p, from - 1)

\* s.lastIndexOf(p)
LastIndexOf(s, p) == LastIndexOfFrom(s, p, Len(s) - Len(p))

\* the length of the longest prefix of s made of digits
RECURSIVE DigitPrefixLen(_)
DigitPrefixLen(s) ==
  IF s = <<>> \/ Head(s) \notin Digits THEN 0 ELSE 1 + DigitPrefixLen(Tail(s))

RECURSIVE DigitsValue(_, _)
DigitsValue(s, acc) ==
  LET DigitVal(ch) ==
        CASE ch = "0" -> 0 [] ch = "1" -> 1 [] ch = "2" -> 2 [] ch = "3" -> 3
          [] ch = "4" -> 4 [] ch = "5" -> 5 [] ch = "6" -> 6 [] ch = "7" -> 7
          [] ch = "8" -> 8 [] ch = "9" -> 9
  IN  IF s = <<>> THEN acc ELSE DigitsValue(Tail(s), 10 * acc + DigitVal(Head(s)))

RECURSIVE SkipWs(_)
SkipWs(s) == IF s # <<>> /\ IsWs(Head(s)) THEN SkipWs(Tail(s)) ELSE s

\* parseInt(s): leading white space skipped, the longest digit prefix read,
\* NaN when there is none
ParseInt(s) ==
  LET value(t, n) == IF n = 0 THEN NaN ELSE DigitsValue(SubSeq(t, 1, n), 0)
      read(t) == value(t, DigitPrefixLen(t))
  IN  read(IF s = UNDEF \/ s = NULL THEN <<>> ELSE SkipWs(s))

\* s.toLowerCase() on the letters the socket tables use for protocols
LowerChar(ch) ==
  CASE ch = "T" -> "t" [] ch = "C" -> "c" [] ch = "P" -> "p"
    [] ch = "U" -> "u" [] ch = "D" -> "d" [] OTHER -> ch

ToLowerCase(s) == [i \in 1..Len(s) |-> LowerChar(s[i])]

\* parts.join(' ')
RECURSIVE JoinSp(_)
JoinSp(parts) ==
  IF parts = <<>> THEN <<>>
  ELSE IF Len(parts) = 1 THEN parts[1]
  ELSE parts[1] \o <<" ">> \o JoinSp(Tail(parts))

----------------------------------------------------------------------------
(* String literals of the source                                           *)

sUnknown == <<"U","n","k","n","o","w","n">>
sTcp == <<"t","c","p">>
sUdp == <<"u","d","p">>
sStar == <<"*">>
sAny4 == <<"0",".","0",".","0",".","0">>
sAny6 == <<":",":">>
sLoop4 == <<"1","2","7",".","0",".","0",".","1">>
sLoop6 == <<":",":","1">>
pat127 == <<"1","2","7",".">>
pre169254 == <<"1","6","9",".","2","5","4",".">>
sLocalhost == <<"l","o","c","a","l","h","o","s","t">>
sLocal == <<"l","o","c","a","l">>
sUsersOpen == <<"u","s","e","r","s",":","(","(","\"">>

----------------------------------------------------------------------------
(* NetworkMonitor: the pure parsing functions                              *)

\* s.split(sep)
RECURSIVE SplitOn(_, _)
SplitOn(s, sep) ==
  LET cut(i) ==
        IF i = -1 THEN <<s>>
        ELSE <<Substring(s, 0, i)>> \o SplitOn(Substring(s, i + Len(sep), Len(s)), sep)
  IN  cut(IndexOfFrom(s, sep, 0))

\* parseAddress(addressPort)
\* a splitter that cuts at the first colon
splitAtFirstColon(addressPort) ==
  IF IndexOfFrom(addressPort, <<":">>, 0) = -1
  THEN [address |-> addressPort, port |-> 0]
  ELSE [address |-> Substring(addressPort, 0, IndexOfFrom(addressPort, <<":">>, 0)),
        port |-> 0]

parseAddress(addressPort) ==
  IF Falsy(addressPort) \/ addressPort = <<"*",":","*">>
  THEN [address |-> sStar, port |-> 0]
  ELSE LET result(address, parsed) ==
             [address |-> IF address = sStar THEN sAny4 ELSE address,
              port |-> IF parsed = NaN THEN 0 ELSE parsed]
           split(lastColon) ==
             IF lastColon = -1
             THEN [address |-> addressPort, port |-> 0]
             ELSE result(Substring(addressPort, 0, lastColon),
                         ParseInt(Substring(addressPort, lastColon + 1, Len(addressPort))))
       IN  split(LastIndexOf(addressPort, <<":">>))

\* x?.includes(pattern)
OptIncludes(x, pattern) == x # UNDEF /\ x # NULL /\ Includes(x, pattern)

\* a loopback test that would match nothing
neverLoopback(localAddr, remoteAddr) == FALSE

\* isLoopbackConnection(localAddr, remoteAddr)
isLoopbackConnection(localAddr, remoteAddr) ==
  \E pattern \in {pat127, sLoop6, sLocalhost} :
    OptIncludes(localAddr, pattern) \/ OptIncludes(remoteAddr, pattern)

\* a connection object as the scanners build it; absent properties are UNDEF
Conn(protocol, local, remote, state, pid, pname, uname) ==
  [protocol |-> protocol,
   localAddress |-> local.address, localPort |-> local.port,
   remoteAddress |-> remote.address, remotePort |-> remote.port,
   state |-> state, processId |-> pid,
   processName |-> pname, userName |-> uname, remoteHostname |-> UNDEF]

\* does rest match \s+\((.+?)\)$
IsStateSuffix(rest) ==
  LET parenthesised(body) ==
        Len(body) >= 3 /\ body[1] = "(" /\ body[Len(body)] = ")"
  IN  rest # <<>> /\ IsWs(rest[1]) /\ parenthesised(SkipWs(rest))

\* node.match(/^(TCP|UDP)\s+(.+?)(?:\s+\((.+?)\))?$/): <<>> for no match,
\* otherwise <<[proto, addressPart, state]>> with state UNDEF when the
\* optional group did not take part
MacOSMatch(node) ==
  IF ~(StartsWith(node, <<"T","C","P">>) \/ StartsWith(node, <<"U","D","P">>)) THEN <<>>
  ELSE LET inner(body) == SubSeq(body, 2, Len(body) - 1)
           groups(addressPart, rest) ==
             <<[proto |-> SubSeq(node, 1, 3),
                addressPart |-> addressPart,
                state |-> IF rest = <<>> THEN UNDEF ELSE inner(SkipWs(rest))]>>
           least(ok) == CHOOSE x \in ok : \A y \in ok : x <= y
           cutAt(r, j) == groups(SubSeq(r, 1, j), SubSeq(r, j + 1, Len(r)))
           lazy(r) == cutAt(r, least({j \in 1..Len(r) :
                                        \/ j = Len(r)
                                        \/ IsStateSuffix(SubSeq(r, j + 1, Len(r)))}))
           from(after, r) ==
             IF after = <<>> \/ ~IsWs(after[1]) THEN <<>>
             ELSE IF r = <<>>
             THEN IF Len(after) < 2 THEN <<>>
                  ELSE <<[proto |-> SubSeq(node, 1, 3),
                          addressPart |-> <<after[Len(after)]>>, state |-> UNDEF]>>
             ELSE lazy(r)
           tail(after) == from(after, SkipWs(after))
       IN  tail(Substring(node, 3, Len(node)))

\* parseMacOSConnection(node): <<>> for null, otherwise <<connInfo>>
parseMacOSConnection(node) ==
  LET both(protocol, pieces, state) ==
        <<Conn(protocol, parseAddress(pieces[1]), parseAddress(pieces[2]),
               state, UndefNum, UNDEF, UNDEF)>>
      connInfo(protocol, addressPart, state) ==
        IF Includes(addressPart, <<"-",">">>)
        THEN both(protocol, SplitOn(addressPart, <<"-",">">>), state)
        ELSE <<Conn(protocol, parseAddress(addressPart),
                    [address |-> sStar, port |-> 0],
                    <<"L","I","S","T","E","N">>, UndefNum, UNDEF, UNDEF)>>
      of(m) == connInfo(ToLowerCase(m.proto), m.addressPart,
                        IF Falsy(m.state) THEN <<"U","N","K","N","O","W","N">> ELSE m.state)
      read(match) == IF match = <<>> THEN <<>> ELSE of(match[1])
  IN  read(MacOSMatch(node))

\* line.match(/users:\(\("([^"]+)",(\d+),\d+\)\)/) at 0-based offset i:
\* <<>> or <<[name, pid]>>
UsersMatchAt(line, i) ==
  IF ~OccursAt(line, sUsersOpen, i) THEN <<>>
  ELSE LET rest(t, n) == IF t = <<>> THEN <<>> ELSE Substring(t, 1 + n, Len(t))
           number(t, n) == t # <<>> /\ t[1] = "," /\ n > 0
           close(name, afterName, n1, afterPid, n2) ==
             IF /\ number(afterName, n1) /\ number(afterPid, n2)
                /\ StartsWith(rest(afterPid, n2), <<")", ")">>)
             THEN <<[name |-> name, pid |-> Substring(afterName, 1, 1 + n1)]>>
             ELSE <<>>
           fd(name, afterName, n1, afterPid) ==
             close(name, afterName, n1, afterPid, DigitPrefixLen(Tail(afterPid)))
           pid(name, afterName, n1) == fd(name, afterName, n1, rest(afterName, n1))
           name(from, q, afterName) ==
             pid(Substring(line, from, q), afterName, DigitPrefixLen(Tail(afterName)))
           quoted(from, q) ==
             IF q = -1 \/ q = from THEN <<>>
             ELSE name(from, q, Substring(line, q + 1, Len(line)))
           open(from) == quoted(from, IndexOfFrom(line, <<"\"">>, from))
       IN  open(i + Len(sUsersOpen))

\* the leftmost match from offset i on
RECURSIVE UsersMatchFrom(_, _)
UsersMatchFrom(line, i) ==
  LET try(at, m) == IF m # <<>> THEN m ELSE UsersMatchFrom(line, at + 1)
      next(at) == IF at = -1 THEN <<>> ELSE try(at, UsersMatchAt(line, at))
  IN  next(IndexOfFrom(line, sUsersOpen, i))

UsersMatch(line) == UsersMatchFrom(line, 0)

\* parseLinuxConnection(line), the line given as its fields line.split(/\s+/):
\* <<>> for null, otherwise <<connInfo>>
parseLinuxConnection(parts) ==
  IF Len(parts) < 4 THEN <<>>
  ELSE LET connInfo(protocol, localAddr, remoteAddr, state, processMatch) ==
             IF processMatch = <<>>
             THEN <<Conn(protocol, localAddr, remoteAddr, state, UndefNum, UNDEF, UNDEF)>>
             ELSE <<Conn(protocol, localAddr, remoteAddr, state,
                         ParseInt(processMatch[1].pid), processMatch[1].name, UNDEF)>>
       IN  connInfo(ToLowerCase(parts[1]),
                    parseAddress(parts[4]),
                    IF Len(parts) > 4 /\ parts[5] # <<"0",".","0",".","0",".","0",":","*">>
                    THEN parseAddress(parts[5])
                    ELSE [address |-> sStar, port |-> 0],
                    IF Len(parts) > 5 THEN parts[6] ELSE <<"U","N","K","N","O","W","N">>,
                    UsersMatch(JoinSp(parts)))

----------------------------------------------------------------------------
(* NetworkMonitor: the scanners, line by line.  A line is given as the     *)
(* fields of trimmedLine.split(/\s+/); an empty line has no field.         *)

\* the body of the for loop of scanWindowsConnections: the connections one
\* line of `netstat -ano` adds
scanWindowsLine(parts, cfg) ==
  IF \/ parts = <<>>
     \/ StartsWith(parts[1], <<"A","c","t","i","v","e">>)
     \/ StartsWith(parts[1], <<"P","r","o","t","o">>)
  THEN <<>>
  ELSE IF Len(parts) < 5 THEN <<>>
  ELSE LET protocol == ToLowerCase(parts[1])
           localAddr == parts[2]
           remoteAddr == parts[3]
           state == parts[4]
           pid == ParseInt(parts[5])
       IN  IF protocol \notin {sTcp, sUdp} THEN <<>>
           ELSE IF ~cfg.includeLoopback /\ isLoopbackConnection(localAddr, remoteAddr)
           THEN <<>>
           ELSE <<Conn(protocol, parseAddress(localAddr), parseAddress(remoteAddr),
                       state, pid, UNDEF, UNDEF)>>

\* the body of the for loop of scanMacOSConnections, for one line of
\* `lsof -i -P -n`
scanMacOSLine(parts, cfg) ==
  IF parts = <<>> \/ StartsWith(parts[1], <<"C","O","M","M","A","N","D">>) THEN <<>>
  ELSE IF Len(parts) < 9 THEN <<>>
  ELSE LET command == parts[1]
           pid == ParseInt(parts[2])
           user == parts[3]
           type == parts[5]
           protocol == parts[8]
           node == parts[9]
           keep(connInfo) ==
             IF connInfo.protocol \notin cfg.protocols THEN <<>>
             ELSE IF /\ ~cfg.includeLoopback
                     /\ isLoopbackConnection(connInfo.localAddress,
                                             connInfo.remoteAddress)
             THEN <<>>
             ELSE <<[connInfo EXCEPT !.processId = pid,
                                     !.processName = command,
                                     !.userName = user]>>
           each(parsed) == IF parsed = <<>> THEN <<>> ELSE keep(parsed[1])
       IN  IF ~Includes(type, <<"I","P","v","4">>) /\ ~Includes(type, <<"I","P","v","6">>) THEN <<>>
           ELSE IF protocol \notin {<<"T","C","P">>, <<"U","D","P">>} THEN <<>>
           ELSE each(parseMacOSConnection(protocol \o <<" ">> \o node))

\* the body of the for loop of scanLinuxConnections, for one line of
\* `ss -tulpn` or `netstat -tulpn`
scanLinuxLine(parts, cfg) ==
  IF \/ parts = <<>>
     \/ StartsWith(parts[1], <<"N","e","t","i","d">>)
     \/ StartsWith(parts[1], <<"P","r","o","t","o">>)
  THEN <<>>
  ELSE LET keep(connInfo) ==
             IF connInfo.protocol \notin cfg.protocols THEN <<>>
             ELSE IF /\ ~cfg.includeLoopback
                     /\ isLoopbackConnection(connInfo.localAddress,
                                             connInfo.remoteAddress)
             THEN <<>>
             ELSE <<connInfo>>
           each(parsed) == IF parsed = <<>> THEN <<>> ELSE keep(parsed[1])
       IN  each(parseLinuxConnection(parts))

\* the connections a scanner collects from the lines of a command's output
RECURSIVE scanLines(_, _, _)
scanLines(plat, lines, cfg) ==
  IF lines = <<>> THEN <<>>
  ELSE (CASE plat = "win32" -> scanWindowsLine(Head(lines), cfg)
          [] plat = "darwin" -> scanMacOSLine(Head(lines), cfg)
          [] plat = "linux" -> scanLinuxLine(Head(lines), cfg)
          [] OTHER -> <<>>)
       \o scanLines(plat, Tail(lines), cfg)

\* String(n) for a number n >= 0
RECURSIVE NumToStr(_)
NumToStr(n) ==
  LET d == <<"0","1","2","3","4","5","6","7","8","9">>[(n % 10) + 1]
  IN  IF n < 10 THEN <<d>> ELSE NumToStr(n \div 10) \o <<d>>

\* a key that also tells the state and the process apart
keyWithState(conn) ==
  conn.protocol \o <<":">> \o conn.localAddress \o <<":">> \o NumToStr(conn.localPort)
    \o <<":">> \o conn.remoteAddress \o <<":">> \o NumToStr(conn.remotePort)
    \o <<":">> \o conn.state \o <<":">> \o NumToStr(conn.processId + 2)

\* the template literal that builds connId in processConnections
connIdOf(conn) ==
  conn.protocol \o <<":">> \o conn.localAddress \o <<":">> \o NumToStr(conn.localPort)
    \o <<":">> \o conn.remoteAddress \o <<":">> \o NumToStr(conn.remotePort)

----------------------------------------------------------------------------
(* DNSResolver: the pure functions                                         *)

\* ip.match(/^172\.(1[6-9]|2[0-9]|3[01])\./)
Is172Private(ip) ==
  /\ StartsWith(ip, <<"1","7","2",".">>) /\ Len(ip) >= 7 /\ ip[7] = "."
  /\ \/ ip[5] = "1" /\ ip[6] \in {"6","7","8","9"}
     \/ ip[5] = "2" /\ ip[6] \in Digits
     \/ ip[5] = "3" /\ ip[6] \in {"0","1"}

\* DNSResolver.isLocalAddress(ip)
isLocalAddress(ip) ==
  IF Falsy(ip) THEN FALSE
  ELSE \/ StartsWith(ip, pat127)
       \/ StartsWith(ip, <<"1","0",".">>)
       \/ Is172Private(ip)
       \/ StartsWith(ip, <<"1","9","2",".","1","6","8",".">>)
       \/ StartsWith(ip, pre169254)
       \/ ip = sLoop6
       \/ StartsWith(ip, <<"f","e","8","0",":">>)
       \/ StartsWith(ip, <<"f","c","0","0",":">>) \/ StartsWith(ip, <<"f","d","0","0",":">>)

\* DNSResolver.getLocalHostname(ip)
getLocalHostname(ip) ==
  IF ip = sLoop4 \/ ip = sLoop6 THEN sLocalhost
  ELSE IF ip = sAny4 \/ ip = sAny6 THEN <<"a","n","y">>
  ELSE IF StartsWith(ip, pre169254) THEN <<"l","i","n","k","-","l","o","c","a","l">>
  ELSE IF isLocalAddress(ip) THEN sLocal
  ELSE ip

\* net.isIPv4: four decimal octets, each without a leading zero and at most
\* 255
IsIPv4(s) ==
  LET IsOctet(o) ==
        /\ Len(o) \in 1..3
        /\ \A i \in 1..Len(o) : o[i] \in Digits
        /\ (Len(o) > 1 => o[1] # "0")
        /\ DigitsValue(o, 0) <= 255
      octets(parts) == Len(parts) = 4 /\ \A i \in 1..4 : IsOctet(parts[i])
  IN  octets(SplitOn(s, <<".">>))

\* net.isIPv6 for addresses written without an embedded IPv4 part or a zone
IsIPv6(s) ==
  LET groupsOf(h) == IF h = <<>> THEN <<>> ELSE SplitOn(h, <<":">>)
      IsHexGroup(g) ==
        /\ Len(g) \in 1..4
        /\ \A i \in 1..Len(g) :
             g[i] \in Digits \cup {"a","b","c","d","e","f","A","B","C","D","E","F"}
      hex(groups) == \A i \in 1..Len(groups) : IsHexGroup(groups[i])
      full(groups) == Len(groups) = 8 /\ hex(groups)
      compressed(left, right) ==
        hex(left) /\ hex(right) /\ Len(left) + Len(right) <= 7
      check(halves) ==
        \/ Len(halves) = 1 /\ full(groupsOf(s))
        \/ Len(halves) = 2 /\ compressed(groupsOf(halves[1]), groupsOf(halves[2]))
  IN  check(SplitOn(s, sAny6))

\* net.isIP(ip) # 0
isIP(ip) == ~Falsy(ip) /\ (IsIPv4(ip) \/ IsIPv6(ip))

----------------------------------------------------------------------------
(* Sample command output                                                   *)

\* TCP 10.0.0.5:50001 8.8.8.8:443 ESTABLISHED 1234
lineW1 ==
  <<<<"T","C","P">>,
     <<"1","0",".","0",".","0",".","5",":","5","0","0","0","1">>,
     <<"8",".","8",".","8",".","8",":","4","4","3">>,
     <<"E","S","T","A","B","L","I","S","H","E","D">>,
     <<"1","2","3","4">>>>

\* TCP 10.0.0.5:50002 8.8.8.8:443 ESTABLISHED 0
lineW2 ==
  <<<<"T","C","P">>,
     <<"1","0",".","0",".","0",".","5",":","5","0","0","0","2">>,
     <<"8",".","8",".","8",".","8",":","4","4","3">>,
     <<"E","S","T","A","B","L","I","S","H","E","D">>,
     <<"0">>>>

\* TCP 127.0.0.1:5000 0.0.0.0:0 LISTENING 4
lineW3 ==
  <<<<"T","C","P">>,
     <<"1","2","7",".","0",".","0",".","1",":","5","0","0","0">>,
     <<"0",".","0",".","0",".","0",":","0">>,
     <<"L","I","S","T","E","N","I","N","G">>,
     <<"4">>>>


\* Chrome 1234 alice 45u IPv4 0x1 0t0 TCP 192.168.1.100:53124->142.250.185.110:443 (ESTABLISHED)
lineM1 ==
  <<<<"C","h","r","o","m","e">>,
     <<"1","2","3","4">>,
     <<"a","l","i","c","e">>,
     <<"4","5","u">>,
     <<"I","P","v","4">>,
     <<"0","x","1">>,
     <<"0","t","0">>,
     <<"T","C","P">>,
     <<"1","9","2",".","1","6","8",".","1",".","1","0","0",":","5","3","1","2","4","-",">","1","4","2",".","2","5","0",".","1","8","5",".","1","1","0",":","4","4","3">>,
     <<"(","E","S","T","A","B","L","I","S","H","E","D",")">>>>

\* mDNS 5 root 9u IPv4 0x3 0t0 UDP *:5353
lineM2 ==
  <<<<"m","D","N","S">>,
     <<"5">>,
     <<"r","o","o","t">>,
     <<"9","u">>,
     <<"I","P","v","4">>,
     <<"0","x","3">>,
     <<"0","t","0">>,
     <<"U","D","P">>,
     <<"*",":","5","3","5","3">>>>

\* node 77 bob 12u IPv4 0x2 0t0 TCP 127.0.0.1:3000 (LISTEN)
lineM3 ==
  <<<<"n","o","d","e">>,
     <<"7","7">>,
     <<"b","o","b">>,
     <<"1","2","u">>,
     <<"I","P","v","4">>,
     <<"0","x","2">>,
     <<"0","t","0">>,
     <<"T","C","P">>,
     <<"1","2","7",".","0",".","0",".","1",":","3","0","0","0">>,
     <<"(","L","I","S","T","E","N",")">>>>

\* tcp 0 0 10.0.0.5:22 8.8.8.8:51000 ESTABLISHED 812/sshd
lineX1 ==
  <<<<"t","c","p">>,
     <<"0">>,
     <<"0">>,
     <<"1","0",".","0",".","0",".","5",":","2","2">>,
     <<"8",".","8",".","8",".","8",":","5","1","0","0","0">>,
     <<"E","S","T","A","B","L","I","S","H","E","D">>,
     <<"8","1","2","/","s","s","h","d">>>>

\* tcp LISTEN 0 128 0.0.0.0:22 0.0.0.0:* users:(("sshd",1234,3))
lineX2 ==
  <<<<"t","c","p">>,
     <<"L","I","S","T","E","N">>,
     <<"0">>,
     <<"1","2","8">>,
     <<"0",".","0",".","0",".","0",":","2","2">>,
     <<"0",".","0",".","0",".","0",":","*">>,
     <<"u","s","e","r","s",":","(","(","\"","s","s","h","d","\"",",","1","2","3","4",",","3",")",")">>>>

\* tcp 0 0 127.0.0.1:631 0.0.0.0:* LISTEN 812/cupsd
lineX3 ==
  <<<<"t","c","p">>,
     <<"0">>,
     <<"0">>,
     <<"1","2","7",".","0",".","0",".","1",":","6","3","1">>,
     <<"0",".","0",".","0",".","0",":","*">>,
     <<"L","I","S","T","E","N">>,
     <<"8","1","2","/","c","u","p","s","d">>>>

\* Netid State Recv-Q Send-Q Local Address:Port Peer Address:Port Process
lineXHeader ==
  <<<<"N","e","t","i","d">>,
     <<"S","t","a","t","e">>,
     <<"R","e","c","v","-","Q">>,
     <<"S","e","n","d","-","Q">>,
     <<"L","o","c","a","l">>,
     <<"A","d","d","r","e","s","s",":","P","o","r","t">>,
     <<"P","e","e","r">>,
     <<"A","d","d","r","e","s","s",":","P","o","r","t">>,
     <<"P","r","o","c","e","s","s">>>>

hostDns == <<"d","n","s",".","g","o","o","g","l","e">>
ip8888 == <<"8",".","8",".","8",".","8">>
nameChrome == <<"c","h","r","o","m","e",".","e","x","e">>
userAlice == <<"a","l","i","c","e">>
cmdSshd == <<"/","u","s","r","/","s","b","i","n","/","s","s","h","d">>
ipPrivate == <<"1","0",".","0",".","0",".","5">>

----------------------------------------------------------------------------
(* Bounds, program constants and the environment                           *)

\* the clock stops at MaxTime
MaxTime == 3
\* how many interval timers and initial scans may exist at once
MaxTimers == 2
\* how many resolveHostname calls of resolveMultiple may await at once
MaxCalls == 2
\* the scanConnections invocations that can be in flight at once
Cycles == <<"c1", "c2">>

\* 5 * 60 * 1000 ms, in units of 2.5 minutes: the dedup window of
\* processConnections
Window == 2
\* DNSResolver.cacheTimeout, 5 * 60 * 1000 ms, in units of 2.5 minutes
cacheTimeout == 2

\* process.platform
Platforms == {"win32", "darwin", "linux", "other"}

\* what Bun.spawn and the read of its stdout give: spawned is FALSE when the
\* spawn or the read throws; exitCode is 0, 1, or NULL while still unset
Result(lines, exitCode) == [spawned |-> TRUE, stdout |-> lines, exitCode |-> exitCode]
Failed == [spawned |-> FALSE, stdout |-> <<>>, exitCode |-> 1]

\* the outputs the first command of a scan can give on each platform; lsof
\* lists a socket once for each process that holds it, and a host may have
\* the address 10.127.0.5
Outputs(plat) ==
  CASE plat = "win32" ->
         {Failed, Result(<<>>, 0),
          \* Proto Local Address Foreign Address State PID
          \* TCP 127.0.0.1:5001 127.0.0.1:5000 ESTABLISHED 1234
          Result(<<<<<<"P","r","o","t","o">>, <<"L","o","c","a","l">>,
                     <<"A","d","d","r","e","s","s">>, <<"F","o","r","e","i","g","n">>,
                     <<"A","d","d","r","e","s","s">>, <<"S","t","a","t","e">>,
                     <<"P","I","D">>>>,
                   <<<<"T","C","P">>,
                     <<"1","2","7",".","0",".","0",".","1",":","5","0","0","1">>,
                     <<"1","2","7",".","0",".","0",".","1",":","5","0","0","0">>,
                     <<"E","S","T","A","B","L","I","S","H","E","D">>,
                     <<"1","2","3","4">>>>,
                   lineW1, lineW2>>, 0),
          Result(<<lineW3, lineW2>>, 0)}
    [] plat = "darwin" ->
         {Failed, Result(<<>>, 0),
          Result(<<lineM1, lineM2,
                   [lineM1 EXCEPT ![9] = <<"1","0",".","1","2","7",".","0",".","5",":",
                                          "5","0","0","0","-",">",
                                          "8",".","8",".","8",".","8",":","4","4","3">>]>>, 0),
          Result(<<lineM3, lineM1,
                   [lineM1 EXCEPT ![1] = <<"H","e","l","p","e","r">>, ![2] = <<"7","7">>,
                                  ![3] = <<"b","o","b">>],
                   lineM2>>, 0)}
    [] plat = "linux" ->
         {Failed, Result(<<>>, 1), Result(<<lineXHeader, lineX2>>, 1),
          Result(<<lineXHeader, lineX2, lineX1>>, 0)}
    [] OTHER -> {}

\* the outputs of the fallback command `netstat -tulpn` on Linux, where a
\* tuple may be listed in two states
FallbackOutputs ==
  {Failed, Result(<<>>, 1),
   Result(<<lineX1,
            [lineX1 EXCEPT ![6] = <<"T","I","M","E","_","W","A","I","T">>, ![7] = <<"-">>],
            lineX3>>, 0)}

\* what processes.find gives in getProcessByPid: <<>> (undefined) or one entry
\* of the process list, shaped as the platform's parser shapes it
ProcessEntries(plat) ==
  IF plat = "win32"
  THEN {<<>>,
        <<[name |-> nameChrome, command |-> UNDEF, user |-> UNDEF]>>,
        <<[name |-> <<>>, command |-> UNDEF, user |-> UNDEF]>>}
  ELSE {<<>>,
        <<[name |-> UNDEF, command |-> cmdSshd, user |-> userAlice]>>}

\* an entry of the process list as getWindowsProcesses and getMacOSProcesses
\* shape it
procChrome == [pid |-> 1234, name |-> nameChrome, command |-> UNDEF, user |-> UNDEF]

\* what the listing command gives getProcessList: it throws (command missing,
\* permission denied), or it gives a parsed list
Listings ==
  {[threw |-> TRUE, processes |-> <<>>],
   [threw |-> FALSE, processes |-> <<>>],
   [threw |-> FALSE, processes |-> <<procChrome>>],
   [threw |-> FALSE, processes |-> <<[pid |-> 812, name |-> UNDEF, command |-> cmdSshd,
                                    user |-> userAlice],
                                   procChrome>>]}

\* the pids getProcessByPid is called with
Pids == {4, 812, 1234}

\* the arguments resolveMultiple is called with
SampleIps == {ip8888, sLoop4, hostDns}
IpLists == {<<a>> : a \in SampleIps} \cup {<<a, b>> : a \in SampleIps, b \in SampleIps}

\* the arguments resolveHostname is called with on its own
LabelIps ==
  {sLoop4, sLoop6, ipPrivate, hostDns,
   <<"1","6","9",".","2","5","4",".","1",".","1">>,   \* 169.254.1.1
   <<"1","7","2",".","1","6",".","0",".","1">>,       \* 172.16.0.1
   <<"f","d","1","2",":",":","1">>,                   \* fd12::1
   <<"1","0",".","x">>}                               \* 10.x, not an address

\* what dnsReverse gives: an error, or a list of names
ReverseResults(ip) ==
  {[err |-> TRUE, names |-> <<>>],
   [err |-> FALSE, names |-> <<>>],
   [err |-> FALSE, names |-> <<hostDns>>],
   [err |-> FALSE, names |-> <<ip>>]}

\* config.monitoring and config.privacy
Configs ==
  [includeLoopback : BOOLEAN, protocols : {{sTcp, sUdp}, {sTcp}, {sUdp}},
   resolveHostnames : BOOLEAN]

\* the platform's scanner applied to every stdout a command can give, under
\* each configuration, computed once
scanResults ==
  [k \in Platforms \X Configs
           \X {o.stdout : o \in UNION {Outputs(p) : p \in Platforms} \cup FallbackOutputs}
     |-> scanLines(k[1], k[3], k[2])] @@ <<>>

\* the connections the platform's scanner returns for a stdout
scanOf(plat, cfg, lines) == scanResults[<<plat, cfg, lines>>]

\* isLocalAddress(ip) and isIP(ip) for every address resolveHostname is
\* called with, computed once
addressTests ==
  [ip \in SampleIps \cup LabelIps
            \cup UNION {{scanResults[k][i].remoteAddress : i \in DOMAIN scanResults[k]} :
                        k \in DOMAIN scanResults}
     |-> [isLocal |-> isLocalAddress(ip), isIP |-> isIP(ip)]] @@ <<>>

----------------------------------------------------------------------------
(* State                                                                   *)

VARIABLES
  platform,            \* process.platform
  config,              \* the configuration handed to the monitor
  now,                 \* Date.now()
  isMonitoring,        \* NetworkMonitor.isMonitoring
  monitoringInterval,  \* NetworkMonitor.monitoringInterval: a timer id, 0 for null
  timers,              \* the interval timers that are installed and not cleared
  wsClient,            \* window.wsClient, the browser's WebSocketClient
  lastConnections,     \* NetworkMonitor.lastConnections: connId -> timestamp
  listeners,           \* NetworkMonitor.listeners
  cycles,              \* the scanConnections invocations in flight
  dnsCache,            \* DNSResolver.cache: ip -> {hostname, timestamp}
  calls,               \* the resolveHostname calls of resolveMultiple awaiting dnsReverse
  ev,                  \* history: what the last step did
  lastEmit,            \* history: connId -> when it was last marked as seen
  lastSeen,            \* history: connId -> when a cycle last examined it
  lastLookup           \* history: ip -> when dnsReverse was last called for it

vars ==
  <<wsClient, platform, config, now, isMonitoring, monitoringInterval, timers,
    lastConnections, listeners, cycles, dnsCache, calls, ev, lastEmit,
    lastSeen, lastLookup>>

EmptyMap == [k \in {} |-> 0]

\* map.set(k, v)
MapSet(m, k, v) == [x \in DOMAIN m \cup {k} |-> IF x = k THEN v ELSE m[x]]

\* map.get(k), with dflt for an absent key
MapGet(m, k, dflt) == IF k \in DOMAIN m THEN m[k] ELSE dflt

\* a || b on strings
Or(a, b) == IF Falsy(a) THEN b ELSE a

\* a scanConnections invocation: where it is suspended, the connections its
\* loop has still to examine, the one being enriched, and newConnections
IdleCycle ==
  [pc |-> "idle", initial |-> FALSE, scanned |-> <<>>, todo |-> <<>>,
   cur |-> <<>>, batch |-> <<>>, looked |-> <<>>, stopped |-> FALSE,
   cmds |-> <<>>]

NoEv ==
  [op |-> "none", c |-> "-", id |-> <<>>, entry |-> 0 - 1, prevEmit |-> 0 - 1,
   prevSeen |-> 0 - 1, pushed |-> <<>>, started |-> <<>>,
   asked |-> <<>>, answers |-> <<>>, res |-> <<>>,
   scanned |-> <<>>, batch |-> <<>>, inserted |-> <<>>, stored |-> <<>>, notified |-> {},
   threw |-> FALSE, stopped |-> FALSE, purged |-> {}, looked |-> <<>>,
   listing |-> <<>>, found |-> <<>>, listenerThrew |-> {}, escaped |-> FALSE,
   cmds |-> <<>>, conn |-> <<>>]

InFlight == {i \in DOMAIN Cycles : cycles[Cycles[i]].pc # "idle"}
FreeSlots == {i \in DOMAIN Cycles : cycles[Cycles[i]].pc = "idle"}
\* the slot the next invocation takes
NextSlot == Cycles[CHOOSE i \in FreeSlots : \A j \in FreeSlots : i <= j]

----------------------------------------------------------------------------
(* processConnections and resolveHostname, piece by piece                  *)

\* a check that finds no entry, as one made before another cycle's marking
neverSeen(lc, connId) == FALSE

\* this.lastConnections.has(connId)
hasConn(lc, connId) == connId \in DOMAIN lc

\* a `continue` that would refresh the timestamp of the connection it skips
refreshOnDuplicate(lc, connId, t) == [lc EXCEPT ![connId] = t]

\* lastConnections after `continue`: a connection already seen leaves the map
\* as it is
onDuplicate(lc, connId, t) == lc

\* ProcessUtils.getProcessList(): the list, [] when the platform's listing
\* throws, and undefined (defined = FALSE) on a platform that none of the
\* three branches covers
getProcessList(plat, listing) ==
  IF plat \in {"win32", "darwin", "linux"}
  THEN [defined |-> TRUE,
        list |-> IF listing.threw THEN <<>> ELSE listing.processes]
  ELSE [defined |-> FALSE, list |-> <<>>]

\* processes.find(p => p.pid === parseInt(pid)): <<>> for undefined
findByPid(list, pid) ==
  IF \E i \in DOMAIN list : list[i].pid = pid
  THEN <<list[CHOOSE i \in DOMAIN list :
                 list[i].pid = pid /\ \A j \in 1..(i - 1) : list[j].pid # pid]>>
  ELSE <<>>

\* ProcessUtils.getProcessByPid(pid): the entry found, or a TypeError when
\* getProcessList gave undefined
getProcessByPid(plat, listing, pid) ==
  LET find(processes) ==
        IF processes.defined
        THEN [threw |-> FALSE, found |-> findByPid(processes.list, pid)]
        ELSE [threw |-> TRUE, found |-> <<>>]
  IN  find(getProcessList(plat, listing))

\* conn.processId && !conn.processName
needsProcessLookup(conn) ==
  /\ conn.processId # 0 /\ conn.processId # NaN /\ conn.processId # UndefNum
  /\ Falsy(conn.processName)

\* the assignments under `if (processInfo)`
applyProcessInfo(conn, entry) ==
  IF entry = <<>> THEN conn
  ELSE [conn EXCEPT
          !.processName = Or(entry[1].name, Or(entry[1].command, sUnknown)),
          !.userName = Or(entry[1].user, sUnknown)]

\* the guard of the hostname resolution in processConnections
wantsHostname(conn, cfg) ==
  cfg.resolveHostnames /\ ~Falsy(conn.remoteAddress) /\ conn.remoteAddress # sStar

\* a cache test that would ignore the age of the entry
anyEntry(cache, ip, t) == ip \in DOMAIN cache

\* cached && Date.now() - cached.timestamp < this.cacheTimeout
cacheHit(cache, ip, t) == ip \in DOMAIN cache /\ t - cache[ip].timestamp < cacheTimeout

\* resolveHostname up to its await: the value it returns at once, or pending
resolveSync(ip, cache, t) ==
  IF addressTests[ip].isLocal THEN [pending |-> FALSE, value |-> getLocalHostname(ip)]
  ELSE IF ~addressTests[ip].isIP THEN [pending |-> FALSE, value |-> ip]
  ELSE IF cacheHit(cache, ip, t) THEN [pending |-> FALSE, value |-> cache[ip].hostname]
  ELSE [pending |-> TRUE, value |-> NULL]

\* an outcome that would accept whatever name comes first
firstName(ip, res) ==
  IF ~res.err /\ Len(res.names) > 0 THEN res.names[1] ELSE NULL

\* resolveHostname after its await: the value cached and returned
reverseOutcome(ip, res) ==
  LET hostname == IF ~res.err /\ Len(res.names) > 0 THEN res.names[1] ELSE NULL
  IN  IF ~res.err /\ ~Falsy(hostname) /\ hostname # ip THEN hostname ELSE NULL

\* an assignment that would take whatever the resolver returned
alwaysSetHostname(conn, resolved) == [conn EXCEPT !.remoteHostname = resolved]

\* the assignment of conn.remoteHostname
setHostname(conn, resolved) ==
  IF ~Falsy(resolved) /\ resolved # conn.remoteAddress
  THEN [conn EXCEPT !.remoteHostname = resolved]
  ELSE conn

\* a push without the defaults
noDefaults(conn) == conn

\* "Set defaults for missing fields"
setDefaults(conn) ==
  [conn EXCEPT !.processName = Or(@, sUnknown), !.userName = Or(@, sUnknown)]

\* an expiry test that would forget the window
isOlder(timestamp, t) == timestamp < t

\* an expiry test that would never fire
neverExpired(timestamp, t) == FALSE

\* timestamp < fiveMinutesAgo
isExpired(timestamp, t) == timestamp < t - Window

\* a clean-up that would delete nothing
keepAll(lc, t) == lc

\* the clean-up loop at the end of processConnections
cleanUp(lc, t) ==
  [k \in {x \in DOMAIN lc : ~isExpired(lc[x], t)} |-> lc[k]]

\* newConnections.push(conn) and the next iteration
pushed(cy, item) ==
  [cycle |-> [cy EXCEPT !.pc = "loop", !.todo = Tail(@), !.cur = <<>>,
                        !.batch = Append(@, item.conn)],
   pushed |-> <<item>>, started |-> <<>>, asked |-> <<>>, answers |-> <<>>]

\* processConnections from "Resolve hostname if enabled" to the push, or to
\* the await of dnsReverse
afterProcess(cy, item, cfg, cache, t) ==
  IF wantsHostname(item.conn, cfg)
  THEN LET resolved(r) ==
             IF r.pending
             THEN [cycle |-> [cy EXCEPT !.pc = "dns", !.cur = <<item>>],
                   pushed |-> <<>>, started |-> <<item.conn.remoteAddress>>,
                   asked |-> <<item.conn.remoteAddress>>, answers |-> <<r>>]
             ELSE [pushed(cy, [item EXCEPT
                                 !.conn = setDefaults(setHostname(@, r.value))])
                     EXCEPT !.asked = <<item.conn.remoteAddress>>, !.answers = <<r>>]
       IN  resolved(resolveSync(item.conn.remoteAddress, cache, t))
  ELSE pushed(cy, [item EXCEPT !.conn = setDefaults(@)])

\* processConnections from "Mark as seen" on, for a connection that is new
afterMark(cy, conn, cfg, cache, t) ==
  LET item == [conn |-> conn, scanned |-> conn, looked |-> FALSE, entry |-> <<>>]
  IN  IF needsProcessLookup(conn)
      THEN [cycle |-> [cy EXCEPT !.pc = "proc", !.cur = <<item>>,
                                 !.looked = Append(@, conn.processId)],
            pushed |-> <<>>, started |-> <<>>, asked |-> <<>>, answers |-> <<>>]
      ELSE afterProcess(cy, item, cfg, cache, t)

\* history of the dnsReverse calls a step starts
noteLookups(ll, started, t) ==
  IF started = <<>> THEN ll ELSE MapSet(ll, started[1], t)

startedEv(ll, started) ==
  IF started = <<>> THEN <<>>
  ELSE <<[ip |-> started[1], prev |-> MapGet(ll, started[1], 0 - 1)]>>

----------------------------------------------------------------------------
(* Actions                                                                 *)

\* this.maxReconnectAttempts
maxReconnectAttempts == 10

\* a connect() that would schedule a reconnection whatever the count
alwaysReschedule(cl) ==
  [cl EXCEPT !.reconnectAttempts = @ + 1, !.timers = @ + 1]

\* WebSocketClient.scheduleReconnect(): nothing once the attempts have
\* reached the maximum; otherwise one more attempt and one more timer
scheduleReconnect(cl) ==
  IF cl.reconnectAttempts >= maxReconnectAttempts THEN cl
  ELSE [cl EXCEPT !.reconnectAttempts = @ + 1, !.timers = @ + 1]

\* WebSocketClient.connect(), where `new WebSocket(wsUrl)` throws or gives a
\* socket in readyState CONNECTING
connect(cl, throws) ==
  IF cl.isConnecting \/ cl.ws = "CONNECTING" THEN cl
  ELSE IF throws THEN scheduleReconnect([cl EXCEPT !.isConnecting = FALSE])
  ELSE [cl EXCEPT !.isConnecting = TRUE, !.ws = "CONNECTING"]

\* new WebSocketClient(): ws is the readyState of this.ws or "null", timers
\* counts the reconnect timers that are pending, detached the sockets that
\* close() has closed and let go and whose close event is still to come
NewClient ==
  connect([ws |-> "null", reconnectAttempts |-> 0, isConnecting |-> FALSE,
           timers |-> 0, detached |-> 0], FALSE)

Init ==
  /\ wsClient = NewClient
  /\ platform \in Platforms
  /\ config \in Configs
  /\ now = 0
  /\ isMonitoring = FALSE
  /\ monitoringInterval = 0
  /\ timers = {}
  /\ lastConnections = EmptyMap
  /\ listeners = {"ws"}
  /\ cycles = [c \in {Cycles[i] : i \in DOMAIN Cycles} |-> IdleCycle]
  /\ dnsCache = EmptyMap
  /\ calls = <<>>
  /\ ev = NoEv
  /\ lastEmit = EmptyMap
  /\ lastSeen = EmptyMap
  /\ lastLookup = EmptyMap

\* scanConnections up to its first await: a platform with a scanner awaits
\* the scanner's command, any other goes on to processConnections([])
beginScan(initial) ==
  [IdleCycle EXCEPT !.pc = IF platform \in {"win32", "darwin", "linux"}
                           THEN "scan" ELSE "loop",
                    !.initial = initial]

\* start(): returns at once when already monitoring, otherwise sets the flag
\* and awaits the initial scan
Start ==
  /\ ~isMonitoring
  /\ FreeSlots # {}
  /\ Cardinality(timers)
       + Cardinality({i \in InFlight : cycles[Cycles[i]].initial}) < MaxTimers
  /\ isMonitoring' = TRUE
  /\ cycles' = [cycles EXCEPT ![NextSlot] = beginScan(TRUE)]
  /\ ev' = [NoEv EXCEPT !.op = "start", !.c = NextSlot]
  /\ UNCHANGED <<wsClient, platform, config, calls, now, monitoringInterval, timers,
                 lastConnections, listeners, dnsCache, lastEmit, lastSeen,
                 lastLookup>>

\* a stop() that would tear down the invocations in flight
abortCycles(cs) == [c \in DOMAIN cs |-> IdleCycle]

\* what stop() does to the invocations in flight: nothing (the history flag
\* `stopped` records that it was called)
stopCycles(cs) ==
  [c \in DOMAIN cs |-> IF cs[c].pc = "idle" THEN cs[c]
                       ELSE [cs[c] EXCEPT !.stopped = TRUE]]

\* stop()
Stop ==
  /\ isMonitoring
  /\ isMonitoring' = FALSE
  /\ IF monitoringInterval # 0
     THEN /\ timers' = timers \ {monitoringInterval}
          /\ monitoringInterval' = 0
     ELSE UNCHANGED <<timers, monitoringInterval>>
  /\ cycles' = stopCycles(cycles)
  /\ ev' = [NoEv EXCEPT !.op = "stop"]
  /\ UNCHANGED <<wsClient, platform, config, calls, now, lastConnections, listeners, dnsCache,
                 lastEmit, lastSeen, lastLookup>>

\* an interval timer fires: () => this.scanConnections()
TimerFire ==
  /\ timers # {}
  /\ FreeSlots # {}
  /\ cycles' = [cycles EXCEPT ![NextSlot] = beginScan(FALSE)]
  /\ ev' = [NoEv EXCEPT !.op = "timer", !.c = NextSlot]
  /\ UNCHANGED <<wsClient, platform, config, calls, now, isMonitoring, monitoringInterval,
                 timers, lastConnections, listeners, dnsCache, lastEmit,
                 lastSeen, lastLookup>>

\* the command each scanner spawns first
commandOf(plat) ==
  CASE plat = "win32" -> "netstat -ano"
    [] plat = "darwin" -> "lsof -i -P -n"
    [] OTHER -> "ss -tulpn"

\* the invocation cy after the command cmd has returned out (the log cmds
\* keeps what the invocation has spawned so far and how it ended)
logCmd(cy, cmd, out) ==
  [cy EXCEPT !.cmds = Append(@, [cmd |-> cmd, spawned |-> out.spawned,
                                 empty |-> out.stdout = <<>>,
                                 exitCode |-> out.exitCode])]

\* the scanner's loop over the lines of the output, handing the connections
\* to processConnections
parsedInto(cy, lines) == [cy EXCEPT !.pc = "loop", !.scanned = lines, !.todo = lines]

\* a scanner that spawns its command again when it failed
retryScan(cy, plat, cfg, out) ==
  IF ~out.spawned \/ out.stdout = <<>>
  THEN [logCmd(cy, commandOf(plat), out) EXCEPT
          !.pc = IF cy.cmds = <<>> THEN "scan" ELSE "loop"]
  ELSE parsedInto(logCmd(cy, commandOf(plat), out), scanOf(plat, cfg, out.stdout))

\* the scanner after its first command returned: a throw goes to the catch
\* and gives no connections; on Linux an empty or failed `ss` is followed by
\* `netstat`; otherwise the lines are scanned
afterScan(cy, plat, cfg, out) ==
  IF ~out.spawned
  THEN [logCmd(cy, commandOf(plat), out) EXCEPT !.pc = "loop"]
  ELSE IF plat = "linux" /\ (out.stdout = <<>> \/ out.exitCode # 0)
  THEN [logCmd(cy, commandOf(plat), out) EXCEPT !.pc = "scan2"]
  ELSE parsedInto(logCmd(cy, commandOf(plat), out), scanOf(plat, cfg, out.stdout))

\* the scanner's command returns and, unless the fallback is due,
\* processConnections starts
ScanReturn(c, out) ==
  /\ cycles[c].pc = "scan"
  /\ out \in Outputs(platform)
  /\ cycles' = [cycles EXCEPT ![c] = afterScan(@, platform, config, out)]
  /\ ev' = [NoEv EXCEPT !.op = "scan", !.c = c]
  /\ UNCHANGED <<wsClient, platform, config, calls, now, isMonitoring, monitoringInterval,
                 timers, lastConnections, listeners, dnsCache, lastEmit,
                 lastSeen, lastLookup>>

\* scanLinuxConnections after `netstat -tulpn` returned
afterFallback(cy, plat, cfg, out) ==
  IF ~out.spawned
  THEN [logCmd(cy, "netstat -tulpn", out) EXCEPT !.pc = "loop"]
  ELSE parsedInto(logCmd(cy, "netstat -tulpn", out), scanOf(plat, cfg, out.stdout))

\* the fallback command of scanLinuxConnections returns
FallbackReturn(c, out) ==
  /\ cycles[c].pc = "scan2"
  /\ out \in FallbackOutputs
  /\ cycles' = [cycles EXCEPT ![c] = afterFallback(@, platform, config, out)]
  /\ ev' = [NoEv EXCEPT !.op = "scan", !.c = c]
  /\ UNCHANGED <<wsClient, platform, config, calls, now, isMonitoring, monitoringInterval,
                 timers, lastConnections, listeners, dnsCache, lastEmit,
                 lastSeen, lastLookup>>

\* one iteration of the loop of processConnections, up to its first await,
\* for the connection conn whose key is connId
examineAs(c, conn, connId) ==
  LET cy == cycles[c]
      out == afterMark(cy, conn, config, dnsCache, now)
      base == [NoEv EXCEPT !.c = c, !.id = connId, !.conn = <<conn>>,
                           !.entry = MapGet(lastConnections, connId, 0 - 1),
                           !.prevEmit = MapGet(lastEmit, connId, 0 - 1),
                           !.prevSeen = MapGet(lastSeen, connId, 0 - 1)]
  IN  /\ IF hasConn(lastConnections, connId)
         THEN /\ lastConnections' = onDuplicate(lastConnections, connId, now)
              /\ cycles' = [cycles EXCEPT ![c].todo = Tail(@)]
              /\ ev' = [base EXCEPT !.op = "drop"]
              /\ UNCHANGED <<lastEmit, lastLookup>>
         ELSE /\ lastConnections' = MapSet(lastConnections, connId, now)
              /\ lastEmit' = MapSet(lastEmit, connId, now)
              /\ \E o \in {out} :
                   /\ cycles' = [cycles EXCEPT ![c] = o.cycle]
                   /\ lastLookup' = noteLookups(lastLookup, o.started, now)
                   /\ ev' = [base EXCEPT !.op = "mark", !.pushed = o.pushed,
                                         !.started = startedEv(lastLookup, o.started),
                                         !.asked = o.asked, !.answers = o.answers]
      /\ lastSeen' = MapSet(lastSeen, connId, now)
      /\ UNCHANGED <<wsClient, platform, config, calls, now, isMonitoring, monitoringInterval,
                     timers, listeners, dnsCache>>

Examine(c) ==
  /\ cycles[c].pc = "loop"
  /\ cycles[c].todo # <<>>
  /\ \E connId \in {connIdOf(Head(cycles[c].todo))} :
       examineAs(c, Head(cycles[c].todo), connId)

\* getProcessByPid returns
ProcReturn(c, entry) ==
  LET cy == cycles[c]
      item == [cy.cur[1] EXCEPT !.conn = applyProcessInfo(@, entry),
                                !.looked = TRUE, !.entry = entry]
      out == afterProcess(cy, item, config, dnsCache, now)
  IN  /\ cy.pc = "proc"
      /\ entry \in ProcessEntries(platform)
      /\ cycles' = [cycles EXCEPT ![c] = out.cycle]
      /\ lastLookup' = noteLookups(lastLookup, out.started, now)
      /\ ev' = [NoEv EXCEPT !.op = "proc", !.c = c, !.pushed = out.pushed,
                            !.started = startedEv(lastLookup, out.started),
                            !.asked = out.asked, !.answers = out.answers]
      /\ UNCHANGED <<wsClient, platform, config, calls, now, isMonitoring, monitoringInterval,
                     timers, lastConnections, listeners, dnsCache, lastEmit,
                     lastSeen>>

\* dnsReverse returns or throws: resolveHostname caches and returns, and
\* processConnections goes on to the push
DnsReturn(c, res) ==
  LET cy == cycles[c]
      ip == cy.cur[1].conn.remoteAddress
      value == reverseOutcome(ip, res)
      item == [cy.cur[1] EXCEPT !.conn = setDefaults(setHostname(@, value))]
      out == pushed(cy, item)
  IN  /\ cy.pc = "dns"
      /\ res \in ReverseResults(ip)
      /\ dnsCache' = MapSet(dnsCache, ip, [hostname |-> value, timestamp |-> now])
      /\ cycles' = [cycles EXCEPT ![c] = out.cycle]
      /\ ev' = [NoEv EXCEPT !.op = "dns", !.c = c, !.pushed = out.pushed]
      /\ UNCHANGED <<wsClient, platform, config, calls, now, isMonitoring, monitoringInterval,
                     timers, lastConnections, listeners, lastEmit, lastSeen,
                     lastLookup>>

\* the calls of resolveHostname that resolveMultiple leaves awaiting
\* dnsReverse: ips.map runs each call up to its await before any lookup returns
RECURSIVE pendingOf(_, _, _)
pendingOf(ips, cache, t) ==
  IF ips = <<>> THEN <<>>
  ELSE (IF resolveSync(Head(ips), cache, t).pending THEN <<Head(ips)>> ELSE <<>>)
         \o pendingOf(Tail(ips), cache, t)

\* resolveMultiple(ips), up to `await Promise.all(promises)`
ResolveMultiple(ips) ==
  LET started == pendingOf(ips, dnsCache, now)
  IN  /\ Len(calls) + Len(started) <= MaxCalls
      /\ calls' = calls \o started
      /\ lastLookup' = [k \in DOMAIN lastLookup \cup {started[i] : i \in DOMAIN started} |->
                          IF \E i \in DOMAIN started : started[i] = k THEN now
                          ELSE lastLookup[k]]
      /\ ev' = [NoEv EXCEPT !.op = "resolve",
                            !.started =
                              [i \in DOMAIN started |->
                                 [ip |-> started[i],
                                  prev |-> IF \E j \in 1..(i - 1) : started[j] = started[i]
                                           THEN now
                                           ELSE MapGet(lastLookup, started[i], 0 - 1)]],
                            !.asked = ips,
                            !.answers = [i \in DOMAIN ips |->
                                           resolveSync(ips[i], dnsCache, now)]]
      /\ UNCHANGED <<wsClient, platform, config, now, isMonitoring, monitoringInterval,
                     timers, lastConnections, listeners, cycles, dnsCache,
                     lastEmit, lastSeen>>

\* dnsReverse returns or throws in the i-th awaiting call of resolveMultiple
CallReturn(i, res) ==
  /\ i \in DOMAIN calls
  /\ res \in ReverseResults(calls[i])
  /\ dnsCache' = MapSet(dnsCache, calls[i],
                        [hostname |-> reverseOutcome(calls[i], res), timestamp |-> now])
  /\ calls' = SubSeq(calls, 1, i - 1) \o SubSeq(calls, i + 1, Len(calls))
  /\ ev' = [NoEv EXCEPT !.op = "resolved", !.asked = <<calls[i]>>, !.res = <<res>>,
                        !.answers = <<[pending |-> FALSE,
                                       value |-> reverseOutcome(calls[i], res)]>>]
  /\ UNCHANGED <<wsClient, platform, config, now, isMonitoring, monitoringInterval,
                 timers, lastConnections, listeners, cycles, lastEmit, lastSeen,
                 lastLookup>>

\* a call of ProcessUtils.getProcessByPid(pid) while the listing command
\* behaves as `listing`
GetProcessByPid(listing, pid) ==
  /\ listing \in Listings
  /\ pid \in Pids
  /\ \E r \in {getProcessByPid(platform, listing, pid)} :
       ev' = [NoEv EXCEPT !.op = "lookup", !.listing = <<listing>>,
                          !.looked = <<pid>>, !.threw = r.threw, !.found = r.found]
  /\ UNCHANGED <<wsClient, platform, config, now, isMonitoring, monitoringInterval, timers,
                 lastConnections, listeners, cycles, dnsCache, calls, lastEmit,
                 lastSeen, lastLookup>>

\* the answers dnsReverse can give to the i-th awaiting call
CallChoices(i) == IF i \in DOMAIN calls THEN ReverseResults(calls[i]) ELSE {}

\* a notification that ends at a listener that throws
stopAtThrow(ls, bad) == IF bad = {} THEN ls ELSE bad

\* notifyListeners: the listeners that are called with the batch when the
\* listeners in bad throw; each call has its own try/catch
notifyListeners(ls, bad) == ls

\* the catch of scanConnections: whether an exception thrown inside its try
\* block leaves the function
rethrown(threw) == threw

escapes(threw) == FALSE

\* the end of processConnections (the clean-up) and the rest of
\* scanConnections: insertConnection for each record, where the failAt-th
\* call throws (0: none does), then notifyListeners, where the listeners in
\* bad throw and every listener is still called; after the initial scan
\* start() goes on to install the interval timer, unless the scan rejected
Finish(c, failAt) ==
  LET cy == cycles[c]
      n == Len(cy.batch)
      kept == cleanUp(lastConnections, now)
      id == CHOOSE k \in 1..(Cardinality(timers) + 1) :
              k \notin timers /\ \A m \in 1..(k - 1) : m \in timers
  IN  /\ cy.pc = "loop"
      /\ cy.todo = <<>>
      /\ failAt \in 0..n
      /\ lastConnections' = kept
      /\ cycles' = [cycles EXCEPT ![c] = IdleCycle]
      /\ IF cy.initial /\ ~escapes(failAt # 0)
         THEN /\ monitoringInterval' = id
              /\ timers' = timers \cup {id}
         ELSE UNCHANGED <<monitoringInterval, timers>>
      /\ \E bad \in (IF n > 0 /\ failAt = 0 THEN SUBSET listeners ELSE {{}}) :
          ev' = [NoEv EXCEPT
                  !.op = "finish", !.c = c, !.scanned = cy.scanned,
                  !.listenerThrew = bad,
                  !.cmds = cy.cmds,
                  !.escaped = escapes(failAt # 0),
                  !.batch = cy.batch,
                  !.inserted = IF failAt = 0 THEN cy.batch
                               ELSE SubSeq(cy.batch, 1, failAt),
                  !.stored = IF failAt = 0 THEN cy.batch
                             ELSE SubSeq(cy.batch, 1, failAt - 1),
                  !.notified = IF n > 0 /\ failAt = 0
                               THEN notifyListeners(listeners, bad) ELSE {},
                  !.threw = failAt # 0,
                  !.stopped = cy.stopped,
                  !.looked = cy.looked,
                  !.purged = DOMAIN lastConnections \ DOMAIN kept]
      /\ UNCHANGED <<wsClient, platform, config, calls, now, isMonitoring, listeners, dnsCache,
                     lastEmit, lastSeen, lastLookup>>

\* a minute passes
Tick ==
  /\ now < MaxTime
  /\ now' = now + 1
  /\ ev' = [NoEv EXCEPT !.op = "tick"]
  /\ UNCHANGED <<wsClient, platform, config, calls, isMonitoring, monitoringInterval, timers,
                 lastConnections, listeners, cycles, dnsCache, lastEmit,
                 lastSeen, lastLookup>>

\* the answers dnsReverse can give to the invocation suspended on it
ReverseChoices(c) ==
  IF cycles[c].pc = "dns" THEN ReverseResults(cycles[c].cur[1].conn.remoteAddress)
  ELSE {}

CycleStep(c) ==
  \/ \E out \in Outputs(platform) : ScanReturn(c, out)
  \/ \E out \in FallbackOutputs : FallbackReturn(c, out)
  \/ Examine(c)
  \/ \E entry \in ProcessEntries(platform) : ProcReturn(c, entry)
  \/ \E res \in ReverseChoices(c) : DnsReturn(c, res)
  \/ \E failAt \in 0..Len(cycles[c].batch) : Finish(c, failAt)

Next ==
  \/ Start
  \/ Stop
  \/ TimerFire
  \/ Tick
  \/ \E i \in DOMAIN Cycles : CycleStep(Cycles[i])
  \/ \E ips \in IpLists : ResolveMultiple(ips)
  \/ \E i \in 1..MaxCalls : \E res \in CallChoices(i) : CallReturn(i, res)
  \/ \E listing \in Listings : \E pid \in Pids : GetProcessByPid(listing, pid)

Spec == Init /\ [][Next]_vars

----------------------------------------------------------------------------
(* Specifications: the same actions, each under the inputs that exercise   *)
(* one concern                                                             *)

\* a configuration with the loopback filter and the hostname resolution set
Cfg(loopback, resolve) ==
  [includeLoopback |-> loopback, protocols |-> {sTcp, sUdp},
   resolveHostnames |-> resolve]

\* the dedup window over time: Windows, no hostname resolution, cycles that
\* may overlap, a monitor that is never stopped
InitDedup == Init /\ platform = "win32" /\ config = Cfg(FALSE, FALSE)

CycleDedup(c) ==
  \/ \E out \in Outputs(platform) : ScanReturn(c, out)
  \/ Examine(c)
  \/ \E entry \in ProcessEntries(platform) : ProcReturn(c, entry)
  \/ \E failAt \in 0..Len(cycles[c].batch) : Finish(c, failAt)

NextDedup ==
  \/ Start
  \/ TimerFire
  \/ Tick
  \/ \E i \in DOMAIN Cycles : CycleDedup(Cycles[i])

SpecDedup == InitDedup /\ [][NextDedup]_vars

\* the scheduler: Windows with hostname resolution, start() and stop() at
\* any moment, cycles that may overlap, no time passing
InitSched == Init /\ platform = "win32" /\ config = Cfg(FALSE, TRUE)

\* the steps of an invocation on Windows, where no fallback command exists
CycleSched(c) ==
  \/ \E out \in Outputs(platform) : ScanReturn(c, out)
  \/ Examine(c)
  \/ \E entry \in ProcessEntries(platform) : ProcReturn(c, entry)
  \/ \E res \in ReverseChoices(c) : DnsReturn(c, res)
  \/ \E failAt \in 0..Len(cycles[c].batch) : Finish(c, failAt)

NextSched ==
  \/ Start
  \/ Stop
  \/ TimerFire
  \/ \E i \in DOMAIN Cycles : CycleSched(Cycles[i])

SpecSched == InitSched /\ [][NextSched]_vars

\* the pipeline from scan to batch: every platform and configuration, one
\* cycle after the other, no time passing
NextPipe ==
  \/ Start
  \/ TimerFire /\ InFlight = {}
  \/ \E i \in DOMAIN Cycles : CycleStep(Cycles[i])

SpecPipe == Init /\ [][NextPipe]_vars

\* a long-lived socket: the dedup window over time when every scan output
\* contains the connection of lineW2, cycles keep being run one after the
\* other and time passes
CycleLive(c) ==
  \/ \E out \in {o \in Outputs("win32") : \E i \in DOMAIN o.stdout : o.stdout[i] = lineW2} :
       ScanReturn(c, out)
  \/ Examine(c)
  \/ \E entry \in ProcessEntries(platform) : ProcReturn(c, entry)
  \/ Finish(c, 0)

RunLive ==
  \/ Start
  \/ TimerFire /\ InFlight = {}
  \/ \E i \in DOMAIN Cycles : CycleLive(Cycles[i])

NextLive ==
  \/ RunLive
  \/ Tick

SpecLive == InitDedup /\ [][NextLive]_vars /\ WF_vars(Tick) /\ WF_vars(RunLive)

\* the resolver on its own: resolveMultiple called with any of the sample
\* lists while time passes
InitDns == Init /\ platform = "other" /\ config = Cfg(FALSE, TRUE)

NextDns ==
  \/ \E ips \in IpLists : ResolveMultiple(ips)
  \/ \E i \in 1..MaxCalls : \E res \in CallChoices(i) : CallReturn(i, res)
  \/ Tick

SpecDns == InitDns /\ [][NextDns]_vars

\* a running monitor with hostname resolution on Windows: cycles are run one
\* after the other for ever while time passes
RunSteps ==
  \/ Start
  \/ TimerFire /\ InFlight = {}
  \/ \E i \in DOMAIN Cycles : CycleSched(Cycles[i])

NextRun ==
  \/ RunSteps
  \/ Tick

SpecRun == InitSched /\ [][NextRun]_vars /\ WF_vars(Tick) /\ WF_vars(RunSteps)

\* the same monitor when nothing obliges the operating system or the resolver
\* to answer: only the monitor's own steps (start, the timer callback, the
\* loop of processConnections and the end of a cycle) and the clock are
\* bound to happen; no await of the code carries a timeout
ProgramSteps ==
  \/ Start
  \/ TimerFire /\ InFlight = {}
  \/ \E i \in DOMAIN Cycles :
       \/ Examine(Cycles[i])
       \/ \E failAt \in 0..Len(cycles[Cycles[i]].batch) : Finish(Cycles[i], failAt)

SpecHang == InitSched /\ [][NextRun]_vars /\ WF_vars(Tick) /\ WF_vars(ProgramSteps)

\* a status that tells monitoring by the interval timer
statusByTimer(monitoring, interval, cfg, conns, ls) ==
  [isMonitoring |-> interval # 0, protocols |-> cfg.protocols,
   includeLoopback |-> cfg.includeLoopback,
   activeConnections |-> Cardinality(DOMAIN conns), listeners |-> Cardinality(ls)]

\* getStatus() (the configured interval is not part of the model's config)
getStatus(monitoring, interval, cfg, conns, ls) ==
  [isMonitoring |-> monitoring, protocols |-> cfg.protocols,
   includeLoopback |-> cfg.includeLoopback,
   activeConnections |-> Cardinality(DOMAIN conns), listeners |-> Cardinality(ls)]

\* a caller reads the status
GetStatus ==
  /\ ev' = [NoEv EXCEPT
              !.op = "status",
              !.res = <<getStatus(isMonitoring, monitoringInterval, config,
                                  lastConnections, listeners)>>]
  /\ UNCHANGED <<wsClient, platform, config, now, isMonitoring, monitoringInterval, timers,
                 lastConnections, listeners, cycles, dnsCache, calls, lastEmit,
                 lastSeen, lastLookup>>

\* addListener(callback): Set.add
AddListener(callback) ==
  /\ callback \notin listeners
  /\ listeners' = listeners \cup {callback}
  /\ ev' = [NoEv EXCEPT !.op = "addListener"]
  /\ UNCHANGED <<wsClient, platform, config, now, isMonitoring, monitoringInterval, timers,
                 lastConnections, cycles, dnsCache, calls, lastEmit, lastSeen,
                 lastLookup>>

\* removeListener(callback): Set.delete
RemoveListener(callback) ==
  /\ callback \in listeners
  /\ listeners' = listeners \ {callback}
  /\ ev' = [NoEv EXCEPT !.op = "removeListener"]
  /\ UNCHANGED <<wsClient, platform, config, now, isMonitoring, monitoringInterval, timers,
                 lastConnections, cycles, dnsCache, calls, lastEmit, lastSeen,
                 lastLookup>>

\* the monitor as its callers see it: started and stopped, listeners coming
\* and going, the status read at any moment, cycles run one after the other
NextStatus ==
  \/ Start
  \/ Stop
  \/ TimerFire /\ InFlight = {}
  \/ \E i \in DOMAIN Cycles : CycleDedup(Cycles[i])
  \/ \E callback \in {"ws", "ui"} : AddListener(callback) \/ RemoveListener(callback)
  \/ GetStatus

SpecStatus == InitDedup /\ [][NextStatus]_vars

\* the endpoint columns of the sample outputs, and the other forms the three
\* tools print: wildcards and IPv6 literals
Endpoints ==
  {lineW1[2], lineW1[3], lineW3[2], lineW3[3], lineX1[4], lineX2[5], lineX2[6],
   lineM2[9], lineM3[9], Substring(lineM1[9], 0, 19),
   Substring(lineM1[9], 21, Len(lineM1[9])),
   <<"*",":","*">>, <<"[",":",":","]",":","1","3","5">>,
   <<":",":",":","2","2">>, <<"[",":",":","1","]",":","6","3","1">>}

\* parseAddress called on an endpoint column
ParseAddress ==
  \E addressPort \in Endpoints :
    /\ ev' = [NoEv EXCEPT !.op = "parse", !.asked = <<addressPort>>,
                          !.res = <<parseAddress(addressPort)>>]
    /\ UNCHANGED <<wsClient, platform, config, now, isMonitoring, monitoringInterval, timers,
                   lastConnections, listeners, cycles, dnsCache, calls, lastEmit,
                   lastSeen, lastLookup>>

\* the address splitter on its own
SpecParse == Init /\ [][ParseAddress]_vars

\* the process lookup on its own: getProcessByPid called on any platform
\* with any behaviour of the listing command
NextProc == \E listing \in Listings : \E pid \in Pids : GetProcessByPid(listing, pid)

SpecProc == Init /\ [][NextProc]_vars

\* the resolver's classification of its input: resolveHostname called with
\* one address at a time (resolveMultiple of a list of one), local and
\* private addresses and names among them
NextLabel ==
  \/ \E ip \in LabelIps : ResolveMultiple(<<ip>>)
  \/ \E i \in 1..MaxCalls : \E res \in CallChoices(i) : CallReturn(i, res)
  \/ Tick

SpecLabel == InitDns /\ [][NextLabel]_vars

----------------------------------------------------------------------------
(* The dedup window (SpecDedup)                                            *)

\* the step just taken examined a connection in processConnections
Examined == ev.op \in {"mark", "drop"}

\* C1 as stated: a tuple that some cycle examined less than the window ago is
\* not put into the batch of a later cycle, whether that earlier cycle emitted
\* it or dropped it
C1_AnyEarlierCycle ==
  ev.op = "mark" => ev.prevSeen = 0 - 1 \/ now - ev.prevSeen >= Window

\* C1: a tuple that an earlier cycle emitted less than the window ago is
\* dropped by every later cycle that contains it, so it is in no second batch
C1_DedupWithinWindow ==
  (Examined /\ ev.prevEmit # 0 - 1 /\ now - ev.prevEmit < Window) => ev.op = "drop"

\* a cycle drops a tuple that was emitted earlier inside the window
C1_Witness ==
  ev.op = "drop" /\ ev.prevEmit # 0 - 1 /\ now - ev.prevEmit < Window /\ now > ev.prevEmit

\* C3: a sighted tuple with no prior record, or whose record is older than
\* the window at the moment of the sighting, is emitted in the very cycle that
\* sights it, and its timestamp becomes the time of the sighting
C3_ExpiredIsEmitted ==
  (Examined /\ (ev.entry = 0 - 1 \/ now - ev.entry > Window))
    => (ev.op = "mark" /\ ev.id \in DOMAIN lastConnections
                       /\ lastConnections[ev.id] = now)

\* the values of a sequence
Range(seq) == {seq[i] : i \in DOMAIN seq}

\* the connections the invocation c holds for its batch: the one it is
\* enriching and the ones it has pushed
heldIds(cs, c) ==
  {connIdOf(item.conn) : item \in Range(cs[c].cur)}
    \cup {connIdOf(conn) : conn \in Range(cs[c].batch)}

\* C4: no step changes the timestamp of an entry lastConnections already has
\* (a drop leaves it as it was), and a timestamp is written only for the
\* tuple the step marks, which that call goes on to emit
C4_TimestampOnlyWhenEmitted ==
  [][/\ \A k \in DOMAIN lastConnections \cap DOMAIN lastConnections' :
          lastConnections'[k] = lastConnections[k]
     /\ \A k \in DOMAIN lastConnections' \ DOMAIN lastConnections :
          /\ ev'.op = "mark" /\ ev'.id = k
          /\ lastConnections'[k] = now
          /\ k \in heldIds(cycles', ev'.c)]_vars

\* a tuple is dropped some time after its entry was written
C4_Witness ==
  ev.op = "drop" /\ ev.id \in DOMAIN lastConnections
                 /\ lastConnections[ev.id] = ev.entry /\ ev.entry < now

\* C5: when a processConnections call completes, lastConnections has no
\* entry older than the window, so it tracks no more entries than tuples were
\* emitted during the last window
C5_NoStaleEntryAtCompletion ==
  ev.op = "finish" =>
    /\ \A k \in DOMAIN lastConnections : now - lastConnections[k] <= Window
    /\ Cardinality(DOMAIN lastConnections)
         <= Cardinality({k \in DOMAIN lastEmit : now - lastEmit[k] <= Window})

\* a cycle whose scan returned nothing completes and purges an entry
C5_Witness ==
  ev.op = "finish" /\ ev.purged # {} /\ ev.scanned = <<>>

----------------------------------------------------------------------------
(* Re-confirmation of a long-lived socket (SpecLive)                       *)

\* the key of the connection of lineW2
keyW2 == connIdOf(scanLines("win32", <<lineW2>>, Cfg(FALSE, FALSE))[1])

emittedAt(t) == keyW2 \in DOMAIN lastEmit /\ lastEmit[keyW2] = t

emittedSince(t) == keyW2 \in DOMAIN lastEmit /\ lastEmit[keyW2] >= t

\* C2: a tuple present in every scan output, once emitted at a time t that
\* leaves the clock room for a full window, is emitted again by some cycle
\* that runs after the window since t has elapsed
C2_ReconfirmedAfterWindow ==
  \A t \in 0..(MaxTime - Window - 1) : emittedAt(t) ~> emittedSince(t + Window)

\* the tuple is emitted a second time, a window or more after the first
C2_Witness ==
  /\ ev.op = "mark" /\ ev.id = keyW2
  /\ ev.prevEmit # 0 - 1 /\ now - ev.prevEmit >= Window

----------------------------------------------------------------------------
(* The scheduler (SpecSched)                                               *)

\* C6: at most one scanConnections invocation is in progress at any time
C6_AtMostOneCycle == Cardinality(InFlight) <= 1

\* the fields of a record that enrichment fills
enriched(conn) == ~Falsy(conn.processName) /\ ~Falsy(conn.userName)

\* C7: stop() leaves every invocation in flight where it is, with its
\* connections to examine, the one it is enriching and its batch; and an
\* invocation that was in flight when stop() was called ends with every
\* record of its batch enriched, stored and sent to the listeners, unless
\* the database throws
C7_StopDoesNotInterrupt ==
  [][/\ ev'.op = "stop" =>
          \A c \in DOMAIN cycles :
             /\ cycles'[c].pc = cycles[c].pc
             /\ cycles'[c].todo = cycles[c].todo
             /\ cycles'[c].cur = cycles[c].cur
             /\ cycles'[c].batch = cycles[c].batch
     /\ (ev'.op = "finish" /\ ev'.stopped /\ ~ev'.threw) =>
          /\ ev'.batch = cycles[ev'.c].batch
          /\ ev'.stored = ev'.batch
          /\ \A i \in DOMAIN ev'.batch : enriched(ev'.batch[i])
          /\ ev'.batch # <<>> => ev'.notified = listeners]_vars

\* an invocation that stop() found in flight completes with a batch that is
\* stored and sent to the listeners
C7_Witness ==
  /\ ev.op = "finish" /\ ev.stopped /\ ~ev.threw
  /\ ev.batch # <<>> /\ ev.stored = ev.batch /\ ev.notified = listeners

----------------------------------------------------------------------------
(* The pipeline from scan to batch (SpecPipe)                              *)

\* the process lookup gave no name for the record: it was skipped, it found
\* nothing, or its entry has neither name nor command
noNameFound(item) ==
  \/ ~item.looked
  \/ item.entry = <<>>
  \/ Falsy(item.entry[1].name) /\ Falsy(item.entry[1].command)

\* the process lookup gave no user for the record
noUserFound(item) ==
  \/ ~item.looked
  \/ item.entry = <<>>
  \/ Falsy(item.entry[1].user)

\* C8: every record pushed to the batch, and so every record stored or sent
\* to the listeners, has a non-empty processName and userName; a name or user
\* that neither the scanner nor the process lookup gave is "Unknown"
C8_SentinelTotality ==
  /\ \A i \in DOMAIN ev.pushed :
        /\ enriched(ev.pushed[i].conn)
        /\ (Falsy(ev.pushed[i].scanned.processName) /\ noNameFound(ev.pushed[i]))
             => ev.pushed[i].conn.processName = sUnknown
        /\ (Falsy(ev.pushed[i].scanned.userName) /\ noUserFound(ev.pushed[i]))
             => ev.pushed[i].conn.userName = sUnknown
  /\ \A i \in DOMAIN ev.inserted : enriched(ev.inserted[i])
  /\ \A c \in DOMAIN cycles :
        \A i \in DOMAIN cycles[c].batch : enriched(cycles[c].batch[i])

\* a record whose process lookup found nothing is pushed as "Unknown"
C8_Witness ==
  \E i \in DOMAIN ev.pushed :
    /\ ev.pushed[i].looked /\ ev.pushed[i].entry = <<>>
    /\ ev.pushed[i].conn.processName = sUnknown
    /\ ev.pushed[i].conn.userName = sUnknown

\* 127.0.0.0/8, 10.0.0.0/8, 172.16.0.0/12, 192.168.0.0/16, 169.254.0.0/16,
\* ::1, fe80::/10 and fc00::/7, on the textual form of an address
inLocalRange(addr) ==
  \/ StartsWith(addr, pat127)
  \/ StartsWith(addr, <<"1","0",".">>)
  \/ Is172Private(addr)
  \/ StartsWith(addr, <<"1","9","2",".","1","6","8",".">>)
  \/ StartsWith(addr, pre169254)
  \/ addr = sLoop6
  \/ /\ Len(addr) >= 5 /\ addr[5] = ":"
     /\ LowerChar(addr[1]) = "f"
     /\ \/ LowerChar(addr[2]) = "e" /\ LowerChar(addr[3]) \in {"8", "9", "a", "b"}
        \/ LowerChar(addr[2]) \in {"c", "d"}

hasLoopbackPattern(addr) ==
  Includes(addr, pat127) \/ Includes(addr, sLoop6) \/ Includes(addr, sLocalhost)

----------------------------------------------------------------------------
(* The hostname cache (SpecDns)                                            *)

\* C10: a reverse lookup is started for an address only if none was started
\* for it during the last cacheTimeout
C10_OneLookupPerPeriod ==
  \A i \in DOMAIN ev.started :
    ev.started[i].prev = 0 - 1 \/ now - ev.started[i].prev >= cacheTimeout

----------------------------------------------------------------------------
(* The hostname cache (SpecDns)                                            *)

\* the step just taken called resolveHostname and ran it up to its await
Asking == ev.op \in {"resolve", "mark", "proc"}

\* the inputs for which resolveHostname goes on to its cache
reachesCache(ip) == ~addressTests[ip].isLocal /\ addressTests[ip].isIP

\* the cache holds an entry for ip that is younger than 5 minutes
freshEntry(ip) == ip \in DOMAIN dnsCache /\ now - dnsCache[ip].timestamp < cacheTimeout

\* the cache holds an entry for ip that is 5 minutes old or older
staleEntry(ip) == ip \in DOMAIN dnsCache /\ now - dnsCache[ip].timestamp >= cacheTimeout

\* the step just taken started a reverse lookup for ip
lookupStarted(ip) == \E j \in DOMAIN ev.started : ev.started[j].ip = ip

\* what the claim says a reverse lookup's answer is turned into
usefulName(ip, r) ==
  IF ~r.err /\ r.names # <<>> /\ r.names[1] # ip THEN r.names[1] ELSE NULL

\* C11: after a cache miss resolveHostname returns the first name of the
\* reverse lookup when there is one and it differs from the IP, and null
\* otherwise; the value returned is cached with the time of the answer; a call
\* made while that entry is younger than 5 minutes returns the stored value,
\* null included, and starts no lookup
C11_MissThenHit ==
  /\ ev.op = "resolved" =>
        /\ ev.answers[1].value = usefulName(ev.asked[1], ev.res[1])
        /\ ev.asked[1] \in DOMAIN dnsCache
        /\ dnsCache[ev.asked[1]] =
             [hostname |-> usefulName(ev.asked[1], ev.res[1]), timestamp |-> now]
  /\ Asking =>
        \A i \in DOMAIN ev.asked :
          (reachesCache(ev.asked[i]) /\ freshEntry(ev.asked[i])) =>
            /\ ev.answers[i] = [pending |-> FALSE,
                                value |-> dnsCache[ev.asked[i]].hostname]
            /\ ~lookupStarted(ev.asked[i])

\* a call finds a recorded failure that is younger than 5 minutes and
\* returns null at once
C11_Witness ==
  /\ ev.op = "resolve"
  /\ \E i \in DOMAIN ev.asked :
       /\ ev.asked[i] = ip8888
       /\ freshEntry(ip8888)
       /\ dnsCache[ip8888].hostname = NULL
       /\ dnsCache[ip8888].timestamp < now
       /\ ev.answers[i] = [pending |-> FALSE, value |-> NULL]

\* C12: a call that finds an entry 5 minutes old or older returns nothing
\* from it: it starts a reverse lookup, and the answer replaces the entry
C12_NoStaleRead ==
  /\ Asking =>
        \A i \in DOMAIN ev.asked :
          (reachesCache(ev.asked[i]) /\ staleEntry(ev.asked[i])) =>
            ev.answers[i].pending /\ lookupStarted(ev.asked[i])
  /\ ev.op = "resolved" => dnsCache[ev.asked[1]].timestamp = now

\* a call finds an entry that is exactly or more than 5 minutes old and
\* starts a lookup
C12_Witness ==
  /\ ev.op = "resolve"
  /\ \E i \in DOMAIN ev.asked :
       /\ staleEntry(ev.asked[i])
       /\ dnsCache[ev.asked[i]].hostname = hostDns
       /\ ev.answers[i].pending

\* C13: every cache entry that has reached its TTL is eventually removed or
\* replaced, also when its IP is not resolved again
C13_StaleEntryEventuallyGone ==
  \A ip \in SampleIps :
    staleEntry(ip) ~> ~staleEntry(ip)

----------------------------------------------------------------------------
(* The resolver's classification of its input (SpecLabel)                  *)

\* C14: for an input that is not a syntactically valid IPv4 or IPv6 address,
\* whatever it starts with, resolveHostname returns the input itself at once
\* and starts no reverse lookup
C14_NonIpUnchanged ==
  Asking =>
    \A i \in DOMAIN ev.asked :
      ~addressTests[ev.asked[i]].isIP =>
        /\ ev.answers[i] = [pending |-> FALSE, value |-> ev.asked[i]]
        /\ ~lookupStarted(ev.asked[i])

\* C15: for a valid address in 127.0.0.0/8, 10.0.0.0/8, 172.16.0.0/12,
\* 192.168.0.0/16, 169.254.0.0/16, ::1, fe80::/10 or fc00::/7 resolveHostname
\* returns "localhost", "link-local" or "local" at once and starts no reverse
\* lookup; for 10.0.0.5 it returns "local"
C15_LocalRangeLabelled ==
  Asking =>
    \A i \in DOMAIN ev.asked :
      (addressTests[ev.asked[i]].isIP /\ inLocalRange(ev.asked[i])) =>
        /\ ~ev.answers[i].pending
        /\ ev.answers[i].value \in {sLocalhost, <<"l","i","n","k","-","l","o","c","a","l">>, sLocal}
        /\ ev.asked[i] = ipPrivate => ev.answers[i].value = sLocal
        /\ ~lookupStarted(ev.asked[i])

----------------------------------------------------------------------------
(* Hostname enrichment in processConnections (SpecPipe)                    *)

\* the forms a wildcard remote address takes after parseAddress
wildcards == {sStar, sAny4, sAny6}

\* C16: processConnections calls resolveHostname for a record only when
\* resolveHostnames is true and the record's remote address is none of "*",
\* "0.0.0.0" and "::"; with resolution disabled no reverse lookup is started
C16_ResolverOnlyForRealRemote ==
  ev.op \in {"mark", "proc"} =>
    /\ \A i \in DOMAIN ev.asked :
         config.resolveHostnames /\ ev.asked[i] \notin wildcards
    /\ ~config.resolveHostnames => ev.started = <<>>

\* remoteHostname is absent, or a non-empty string other than the address
usefulOrAbsent(conn) ==
  \/ conn.remoteHostname = UNDEF
  \/ /\ conn.remoteHostname \notin {<<>>, NULL}
     /\ conn.remoteHostname # conn.remoteAddress

\* C17: in every record that is emitted remoteHostname is absent or a
\* non-empty string different from remoteAddress, and it is absent whenever
\* resolution is disabled, was skipped for a "*" remote, or returned null
C17_HostnameAbsentOrUseful ==
  /\ \A i \in DOMAIN ev.pushed :
       /\ usefulOrAbsent(ev.pushed[i].conn)
       /\ (~config.resolveHostnames \/ ev.pushed[i].conn.remoteAddress = sStar)
            => ev.pushed[i].conn.remoteHostname = UNDEF
       /\ (ev.op \in {"mark", "proc"} /\ ev.asked = <<>>)
            => ev.pushed[i].conn.remoteHostname = UNDEF
       /\ (ev.op \in {"mark", "proc"} /\ ev.answers # <<>> /\ ev.answers[1].value = NULL)
            => ev.pushed[i].conn.remoteHostname = UNDEF
       /\ (ev.op = "dns" /\ dnsCache[ev.pushed[i].conn.remoteAddress].hostname = NULL)
            => ev.pushed[i].conn.remoteHostname = UNDEF
  /\ \A i \in DOMAIN ev.batch : usefulOrAbsent(ev.batch[i])

\* a cycle emits a batch in which one record carries the name a reverse
\* lookup gave and another, whose lookup gave nothing, carries none
C17_Witness ==
  /\ ev.op = "finish"
  /\ \E i \in DOMAIN ev.batch : ev.batch[i].remoteHostname = hostDns
  /\ \E i \in DOMAIN ev.batch :
       /\ ev.batch[i].remoteHostname = UNDEF
       /\ ev.batch[i].remoteAddress = ip8888

----------------------------------------------------------------------------
(* Process enrichment in processConnections (SpecPipe)                     *)

\* C18: within one scan batch getProcessByPid is called at most once for
\* each distinct process id
C18_OneLookupPerPid ==
  ev.op = "finish" =>
    \A i \in DOMAIN ev.looked : \A j \in DOMAIN ev.looked :
      i # j => ev.looked[i] # ev.looked[j]

\* C19: a process lookup that fails (the listing command throws, the pid is
\* not in the list, or the platform has no listing strategy) yields not-found
\* and raises nothing that could abort the batch
C19_FailedLookupIsNotFound ==
  ev.op = "lookup" =>
    /\ ~ev.threw
    /\ (\/ ev.listing[1].threw
        \/ platform \notin {"win32", "darwin", "linux"}
        \/ \A i \in DOMAIN ev.listing[1].processes :
             ev.listing[1].processes[i].pid # ev.looked[1])
         => ev.found = <<>>

----------------------------------------------------------------------------
(* Storing and notifying (SpecPipe)                                        *)

\* C20: a cycle whose batch is non-empty passes each record of the batch to
\* db.insertConnection once and then calls each listener once with the
\* batch; a cycle whose batch is empty calls neither
C20_BatchStoredAndNotified ==
  ev.op = "finish" =>
    IF ev.batch # <<>>
    THEN ev.inserted = ev.batch /\ ev.notified = listeners
    ELSE ev.inserted = <<>> /\ ev.notified = {}

\* C21: an exception thrown by insertConnection or by a listener never leaves
\* scanConnections: the step that ends such a cycle reports nothing escaped,
\* leaves isMonitoring as it was, removes no timer (after the initial scan
\* the interval timer is installed all the same), and frees the cycle's slot
\* for the next interval
C21_CollaboratorErrorContained ==
  [][(ev'.op = "finish" /\ (ev'.threw \/ ev'.listenerThrew # {})) =>
       /\ ~ev'.escaped
       /\ isMonitoring' = isMonitoring
       /\ timers \subseteq timers'
       /\ cycles'[ev'.c].pc = "idle"
       /\ IF cycles[ev'.c].initial
          THEN monitoringInterval' \in timers' \ timers
          ELSE monitoringInterval' = monitoringInterval]_vars

C21_Witness ==
  /\ ev.op = "finish"
  /\ ev.threw
  /\ ev.batch # <<>>
  /\ isMonitoring
  /\ monitoringInterval \in timers

\* the scan of an invocation failed: the last command it spawned threw or
\* gave no output
scanFailed(cmds) ==
  /\ cmds # <<>>
  /\ ~cmds[Len(cmds)].spawned \/ cmds[Len(cmds)].empty

\* no command is spawned twice by one invocation
noRetry(cmds) ==
  \A i, j \in DOMAIN cmds : i # j => cmds[i].cmd # cmds[j].cmd

\* C22: when the scan of a cycle fails (its command cannot be spawned, throws
\* or gives no output) the cycle ends with an empty batch: nothing is
\* inserted, no listener is called, no command was spawned twice, nothing
\* escapes, and the monitor and its timers stay as they are (the interval
\* timer is installed all the same after the initial scan)
C22_FailedScanGivesEmptyBatch ==
  [][(ev'.op = "finish" /\ scanFailed(ev'.cmds)) =>
       /\ ev'.scanned = <<>>
       /\ ev'.batch = <<>>
       /\ ev'.inserted = <<>>
       /\ ev'.notified = {}
       /\ noRetry(ev'.cmds)
       /\ ~ev'.escaped /\ ~ev'.threw
       /\ isMonitoring' = isMonitoring
       /\ timers \subseteq timers'
       /\ cycles'[ev'.c].pc = "idle"
       /\ cycles[ev'.c].initial => monitoringInterval' \in timers' \ timers]_vars

C22_Witness ==
  /\ ev.op = "finish"
  /\ scanFailed(ev.cmds)
  /\ ev.batch = <<>>
  /\ isMonitoring
  /\ timers # {}

\* the positions of the log at which cmd was spawned
spawnsOf(cmds, cmd) == {i \in DOMAIN cmds : cmds[i].cmd = cmd}

\* a command that is unavailable (the spawn throws), exits non-zero or gives
\* no output
unusable(entry) == ~entry.spawned \/ entry.exitCode # 0 \/ entry.empty

\* C23: on Linux a cycle spawns `ss` at most once and `netstat` at most once,
\* `netstat` only after an `ss` that was unusable, and whenever `ss` was
\* unusable the cycle does spawn `netstat`
C23_FallbackExactlyOnce ==
  (ev.op = "finish" /\ platform = "linux") =>
    /\ Cardinality(spawnsOf(ev.cmds, "ss -tulpn")) <= 1
    /\ Cardinality(spawnsOf(ev.cmds, "netstat -tulpn")) <= 1
    /\ \A i \in spawnsOf(ev.cmds, "netstat -tulpn") :
         i > 1 /\ ev.cmds[i - 1].cmd = "ss -tulpn" /\ unusable(ev.cmds[i - 1])
    /\ \A i \in spawnsOf(ev.cmds, "ss -tulpn") :
         unusable(ev.cmds[i]) => spawnsOf(ev.cmds, "netstat -tulpn") # {}

\* C24: on a platform without a scan strategy the monitor does not come to
\* run: start() fails, so isMonitoring is never set, no interval timer is
\* installed and no cycle ever ends with its (empty) batch
C24_UnsupportedPlatformRefused ==
  platform \notin {"win32", "darwin", "linux"} =>
    /\ ~isMonitoring
    /\ timers = {}
    /\ ev.op # "finish"

\* C25: every started cycle eventually finishes and frees its slot, whether
\* or not the command, the process listing or the reverse lookup it awaits
\* ever answers
C25_CycleEventuallyFinishes ==
  \A i \in DOMAIN Cycles :
    (cycles[Cycles[i]].pc # "idle") ~> (cycles[Cycles[i]].pc = "idle")

----------------------------------------------------------------------------
(* The parsers (SpecParse, SpecPipe)                                       *)

\* joining address, a colon and port
joinEndpoint(r) == r.address \o <<":">> \o NumToStr(r.port)

\* the two halves of an endpoint around its last colon
hostPart(e) == Substring(e, 0, LastIndexOf(e, <<":">>))
portPart(e) == Substring(e, LastIndexOf(e, <<":">>) + 1, Len(e))

\* an endpoint with a concrete host and a decimal port
concrete(e) ==
  /\ hostPart(e) # sStar
  /\ portPart(e) # <<>>
  /\ \A i \in DOMAIN portPart(e) : portPart(e)[i] \in Digits
  /\ Len(portPart(e)) > 1 => portPart(e)[1] # "0"

\* C26 (as stated): every endpoint of the tools' outputs round-trips, the
\* join of the parsed address, a colon and the parsed port being the
\* endpoint itself
C26_EveryEndpointRoundTrips ==
  ev.op = "parse" => joinEndpoint(ev.res[1]) = ev.asked[1]

\* C26 (amended): the endpoint is cut at its last colon; an endpoint with a
\* concrete host and a decimal port round-trips; the wildcards are
\* normalised instead: `*:*` gives address `*` and port 0, a `*` host gives
\* address 0.0.0.0, and a port that is not a number gives 0
C26_ConcreteEndpointRoundTrips ==
  ev.op = "parse" =>
    /\ concrete(ev.asked[1]) => joinEndpoint(ev.res[1]) = ev.asked[1]
    /\ ev.asked[1] = <<"*",":","*">> => ev.res[1] = [address |-> sStar, port |-> 0]
    /\ ev.asked[1] # <<"*",":","*">> =>
         /\ ev.res[1].address =
              IF hostPart(ev.asked[1]) = sStar THEN sAny4 ELSE hostPart(ev.asked[1])
         /\ portPart(ev.asked[1]) = sStar => ev.res[1].port = 0

\* an IPv6 endpoint, with colons inside its address, has been parsed and
\* joined back
C26_Witness ==
  /\ ev.op = "parse"
  /\ concrete(ev.asked[1])
  /\ Includes(hostPart(ev.asked[1]), <<":">>)
  /\ joinEndpoint(ev.res[1]) = ev.asked[1]

\* C27: on macOS, with includeLoopback and resolveHostnames disabled, the lsof
\* row `TCP 192.168.1.100:53124->142.250.185.110:443 (ESTABLISHED)` is
\* emitted as exactly one record: tcp, local port 53124, remote
\* 142.250.185.110:443, state ESTABLISHED (the STATE in parentheses), no
\* remoteHostname
C27_LsofRowEmittedAsEstablished ==
  (platform = "darwin" /\ ~config.includeLoopback /\ ~config.resolveHostnames) =>
    \A i \in DOMAIN ev.pushed :
      ev.pushed[i].scanned.localPort = 53124 =>
        /\ Len(ev.pushed) = 1
        /\ ev.pushed[i].conn.protocol = sTcp
        /\ ev.pushed[i].conn.remoteAddress = Substring(lineM1[9], 21, 36)
        /\ ev.pushed[i].conn.remotePort = 443
        /\ ev.pushed[i].conn.remoteHostname = UNDEF
        /\ ev.pushed[i].conn.state = Substring(lineM1[10], 1, 12)

\* what the address of a parsed endpoint can be: the wildcard or an IP address
addressLike(a) == a = sStar \/ isIP(a)

\* C28: a line that does not have the expected shape contributes no tuple, so
\* every tuple a scanner returns comes from a line whose address columns are
\* endpoints: its local and remote address are the wildcard or an IP address
C28_MalformedLineGivesNoTuple ==
  \A c \in DOMAIN cycles :
    \A i \in DOMAIN cycles[c].scanned :
      /\ addressLike(cycles[c].scanned[i].localAddress)
      /\ addressLike(cycles[c].scanned[i].remoteAddress)

----------------------------------------------------------------------------
(* The dedup key (SpecPipe)                                                *)

\* the five fields of a tuple
fiveFields(conn) ==
  <<conn.protocol, conn.localAddress, conn.localPort, conn.remoteAddress,
    conn.remotePort>>

\* every tuple the platform's scanner can return under the configuration
scannable ==
  UNION {Range(scanOf(platform, config, o.stdout)) :
           o \in Outputs(platform) \cup FallbackOutputs}

\* C29: the key of an examined tuple is built from its five fields alone: it
\* is the key of exactly the scannable tuples with the same five fields,
\* whatever their state, process id, name and user; and the tuple is
\* suppressed exactly when lastConnections holds an entry under that key
C29_KeyIsTheFiveFields ==
  Examined =>
    /\ ev.id = connIdOf(ev.conn[1])
    /\ ev.op = "drop" <=> ev.entry # 0 - 1
    /\ \A t \in scannable :
         connIdOf(t) = ev.id <=> fiveFields(t) = fiveFields(ev.conn[1])

\* a second sighting of a tuple, in another state or of another process, is
\* dropped while the cycle's batch holds the record of the first one
C29_Witness ==
  /\ ev.op = "drop"
  /\ \E i \in DOMAIN cycles[ev.c].batch :
       /\ fiveFields(cycles[ev.c].batch[i]) = fiveFields(ev.conn[1])
       /\ \/ cycles[ev.c].batch[i].state # ev.conn[1].state
          \/ cycles[ev.c].batch[i].processId # ev.conn[1].processId

----------------------------------------------------------------------------
(* The status (SpecStatus)                                                 *)

\* C30: the status a caller reads tells isMonitoring, the number of entries
\* of lastConnections and the number of registered listeners as they are at
\* that moment; isMonitoring is true after start(), false after stop(), and
\* no other step (no cycle, however it ends) changes it
C30_StatusTellsMonitoring ==
  [][/\ ev'.op = "status" =>
          /\ ev'.res[1].isMonitoring = isMonitoring'
          /\ ev'.res[1].activeConnections = Cardinality(DOMAIN lastConnections')
          /\ ev'.res[1].listeners = Cardinality(listeners')
     /\ ev'.op = "start" => isMonitoring'
     /\ ev'.op = "stop" => ~isMonitoring'
     /\ ev'.op \notin {"start", "stop"} => isMonitoring' = isMonitoring]_vars

\* the status is read while monitoring, after a cycle has completed and with
\* no cycle having emitted anything: it tells the monitor is running
C30_Witness ==
  /\ ev.op = "status"
  /\ ev.res[1].isMonitoring
  /\ ev.res[1].activeConnections = 0
  /\ ev.res[1].listeners = 2
  /\ monitoringInterval \in timers

----------------------------------------------------------------------------
(* start() and stop() (SpecSched)                                          *)

\* a start() that has not completed: its initial scan is in flight
pendingStart == \E i \in InFlight : cycles[Cycles[i]].initial

\* C31: monitoringInterval is set only while isMonitoring is true, and once
\* the monitor is stopped and no start() is pending no interval timer is
\* installed
C31_NoTimerOnceStopped ==
  /\ monitoringInterval # 0 => isMonitoring
  /\ (~isMonitoring /\ ~pendingStart) => timers = {}

\* C32: at most one interval timer is installed at any time, and an
\* installed timer is the one monitoringInterval refers to
C32_AtMostOneTimer ==
  /\ Cardinality(timers) <= 1
  /\ timers \subseteq {monitoringInterval}

----------------------------------------------------------------------------
(* Persistence and broadcast (SpecPipe, SpecDedup, SpecStatus)             *)

\* C33: every tuple of the batch that ends its cycle marked in
\* lastConnections was stored by insertConnection and sent to every listener
\* in that cycle, the one record for which insertConnection threw excepted
C33_MarkedIsPersistedAndBroadcast ==
  ev.op = "finish" =>
    \A i \in DOMAIN ev.batch :
      (/\ connIdOf(ev.batch[i]) \in DOMAIN lastConnections
       /\ ~(ev.threw /\ i = Len(ev.inserted)))
        => (i \in DOMAIN ev.stored /\ ev.notified = listeners)

----------------------------------------------------------------------------
(* Overlapping cycles (SpecDedup)                                          *)

\* the other invocations in flight that hold the key k for their batch
otherHolders(c, k) ==
  {i \in InFlight : Cycles[i] # c /\ k \in heldIds(cycles, Cycles[i])}

\* C34: a cycle marks a key only when lastConnections has no entry for it,
\* and check and marking are one step; so when a cycle marks a key that
\* another cycle in flight holds for its own batch, that other cycle marked
\* it a window or more ago
C34_OneOfTwoCyclesEmits ==
  [][ev'.op = "mark" =>
       /\ ev'.id \notin DOMAIN lastConnections
       /\ ev'.id \in DOMAIN lastConnections'
       /\ otherHolders(ev'.c, ev'.id) # {} =>
            (ev'.id \in DOMAIN lastEmit /\ now - lastEmit[ev'.id] >= Window)]_vars

\* two cycles overlap, one has marked a tuple and holds it for its batch,
\* and the other, sighting the same tuple at the same time, drops it
C34_Witness ==
  /\ ev.op = "drop"
  /\ otherHolders(ev.c, ev.id) # {}
  /\ ev.prevEmit = now

\* C35: when a cycle notifies, every listener registered at that moment is
\* called with the batch, the ones after a listener that throws included,
\* nothing escapes to scanConnections, and no listener that is not
\* registered (never added, or removed) is called
C35_EveryRegisteredListenerCalled ==
  [][(ev'.op = "finish" /\ ev'.batch # <<>> /\ ~ev'.threw) =>
       /\ ev'.notified = listeners
       /\ ev'.listenerThrew \subseteq ev'.notified
       /\ ~ev'.escaped]_vars

\* of two registered listeners one throws and both are called
C35_Witness ==
  /\ ev.op = "finish"
  /\ Cardinality(ev.listenerThrew) = 1
  /\ Cardinality(ev.notified) = 2

----------------------------------------------------------------------------
(* The filters of the scanners (SpecPipe, SpecProto)                       *)

\* the address is a loopback address: in 127.0.0.0/8, ::1 or localhost
loopbackAddress(a) ==
  StartsWith(a, pat127) \/ a = sLoop6 \/ a = <<"[",":",":","1","]">> \/ a = sLocalhost

\* C36: with includeLoopback disabled a scan drops a tuple only for a
\* loopback address: every tuple the same output gives with includeLoopback
\* enabled, and whose two addresses are not loopback addresses, is among the
\* connections of the scan
C36_OnlyLoopbackDropped ==
  ~config.includeLoopback =>
    \A c \in DOMAIN cycles :
      \A o \in Outputs(platform) \cup FallbackOutputs :
        (cycles[c].pc \notin {"idle", "scan", "scan2"}
           /\ cycles[c].scanned = scanOf(platform, config, o.stdout)) =>
          \A t \in Range(scanOf(platform, [config EXCEPT !.includeLoopback = TRUE],
                                 o.stdout)) :
            (~loopbackAddress(t.localAddress) /\ ~loopbackAddress(t.remoteAddress))
              => t \in Range(cycles[c].scanned)

\* C37: every record a cycle pushes to its batch, and so every record it
\* emits, has a protocol that is one of config.monitoring.protocols
C37_ProtocolIsConfigured ==
  /\ \A i \in DOMAIN ev.pushed : ev.pushed[i].conn.protocol \in config.protocols
  /\ \A i \in DOMAIN ev.batch : ev.batch[i].protocol \in config.protocols


----------------------------------------------------------------------------
(* The columns of the Linux tools (SpecPipe)                               *)

\* a column that is a queue length
queueLength(col) == col # <<>> /\ \A i \in DOMAIN col : col[i] \in Digits

\* a data line of `ss -tulpn`: Netid State Recv-Q Send-Q Local Peer Process
ssDataLine(line) ==
  Len(line) >= 6 /\ queueLength(line[3]) /\ queueLength(line[4])

\* a data line of `netstat -tulpn`: Proto Recv-Q Send-Q Local Foreign State
netstatDataLine(line) ==
  Len(line) >= 6 /\ queueLength(line[2]) /\ queueLength(line[3])

\* the tuple t has its local endpoint, its remote endpoint and its state from
\* the columns l, p and s of the line (a peer of 0.0.0.0:* may be given as the
\* wildcard)
readsColumns(t, line, l, p, s) ==
  /\ t.localAddress = hostPart(line[l])
  /\ NumToStr(t.localPort) = portPart(line[l])
  /\ \/ /\ t.remoteAddress = hostPart(line[p])
        /\ portPart(line[p]) \in {NumToStr(t.remotePort), sStar}
     \/ /\ portPart(line[p]) = sStar
        /\ t.remoteAddress = sStar
        /\ t.remotePort = 0
  /\ t.state = line[s]

\* the configuration lets a data line with these endpoint columns through
letThrough(line, l, p) ==
  /\ ToLowerCase(line[1]) \in config.protocols
  /\ config.includeLoopback
       \/ (~loopbackAddress(hostPart(line[l])) /\ ~loopbackAddress(hostPart(line[p])))

\* the tuples of the cycle c were scanned from the output o of the command cmd
scannedFrom(c, cmd, o) ==
  /\ cycles[c].pc \notin {"idle", "scan", "scan2"}
  /\ cycles[c].cmds # <<>>
  /\ cycles[c].cmds[Len(cycles[c].cmds)].cmd = cmd
  /\ cycles[c].cmds[Len(cycles[c].cmds)].spawned
  /\ o.spawned /\ o.stdout # <<>>
  /\ cycles[c].scanned = scanOf(platform, config, o.stdout)

\* C38 (netstat half): every data line of `netstat -tulpn` that the
\* configuration lets through gives a tuple with the local endpoint of the
\* Local Address column, the remote endpoint of the Foreign Address column
\* and the state of the State column
C38_NetstatColumnsRead ==
  platform = "linux" =>
    \A c \in DOMAIN cycles : \A o \in FallbackOutputs :
      scannedFrom(c, "netstat -tulpn", o) =>
        \A k \in DOMAIN o.stdout :
          (netstatDataLine(o.stdout[k]) /\ letThrough(o.stdout[k], 4, 5)) =>
            \E i \in DOMAIN cycles[c].scanned :
              readsColumns(cycles[c].scanned[i], o.stdout[k], 4, 5, 6)

\* C38: on Linux every data line of `ss -tulpn` that the configuration lets
\* through gives a tuple with the local endpoint of the Local Address:Port
\* column, the remote endpoint of the Peer Address:Port column and the state
\* of the State column; and every data line of the fallback `netstat -tulpn`
\* gives a tuple read from its Local Address, Foreign Address and State
\* columns
C38_LinuxColumnsRead ==
  /\ C38_NetstatColumnsRead
  /\ platform = "linux" =>
       \A c \in DOMAIN cycles : \A o \in Outputs("linux") :
         (scannedFrom(c, "ss -tulpn", o) /\ o.exitCode = 0) =>
           \A k \in DOMAIN o.stdout :
             (ssDataLine(o.stdout[k]) /\ letThrough(o.stdout[k], 5, 6)) =>
               \E i \in DOMAIN cycles[c].scanned :
                 readsColumns(cycles[c].scanned[i], o.stdout[k], 5, 6, 2)


----------------------------------------------------------------------------
(* The browser's WebSocketClient (SpecSocket)                              *)

\* ws.onopen
OnOpen ==
  /\ wsClient.ws = "CONNECTING"
  /\ wsClient' = [wsClient EXCEPT !.ws = "OPEN", !.isConnecting = FALSE,
                                  !.reconnectAttempts = 0]
  /\ ev' = [NoEv EXCEPT !.op = "onopen"]
  /\ UNCHANGED <<platform, config, now, isMonitoring, monitoringInterval, timers,
                 lastConnections, listeners, cycles, dnsCache, calls, lastEmit,
                 lastSeen, lastLookup>>

\* ws.onclose, of the socket this.ws or of a socket close() has let go
OnClose ==
  /\ \/ /\ wsClient.ws \in {"CONNECTING", "OPEN"}
        /\ wsClient' = scheduleReconnect([wsClient EXCEPT !.ws = "CLOSED",
                                                          !.isConnecting = FALSE])
     \/ /\ wsClient.detached > 0
        /\ wsClient' = scheduleReconnect([wsClient EXCEPT !.detached = @ - 1,
                                                          !.isConnecting = FALSE])
  /\ ev' = [NoEv EXCEPT !.op = "onclose"]
  /\ UNCHANGED <<platform, config, now, isMonitoring, monitoringInterval, timers,
                 lastConnections, listeners, cycles, dnsCache, calls, lastEmit,
                 lastSeen, lastLookup>>

\* ws.onerror
OnError ==
  /\ wsClient.ws \in {"CONNECTING", "OPEN"} \/ wsClient.detached > 0
  /\ wsClient' = [wsClient EXCEPT !.isConnecting = FALSE]
  /\ ev' = [NoEv EXCEPT !.op = "onerror"]
  /\ UNCHANGED <<platform, config, now, isMonitoring, monitoringInterval, timers,
                 lastConnections, listeners, cycles, dnsCache, calls, lastEmit,
                 lastSeen, lastLookup>>

\* the callback of the timer of scheduleReconnect
ReconnectTimer(throws) ==
  /\ wsClient.timers > 0
  /\ wsClient' = IF wsClient.ws \in {"null", "CLOSED"}
                 THEN connect([wsClient EXCEPT !.timers = @ - 1], throws)
                 ELSE [wsClient EXCEPT !.timers = @ - 1]
  /\ ev' = [NoEv EXCEPT !.op = "reconnect"]
  /\ UNCHANGED <<platform, config, now, isMonitoring, monitoringInterval, timers,
                 lastConnections, listeners, cycles, dnsCache, calls, lastEmit,
                 lastSeen, lastLookup>>

\* WebSocketClient.close()
Close ==
  /\ wsClient.ws # "null"
  /\ wsClient' = [wsClient EXCEPT
                    !.ws = "null",
                    !.detached = IF wsClient.ws = "CLOSED" THEN @ ELSE @ + 1]
  /\ ev' = [NoEv EXCEPT !.op = "close"]
  /\ UNCHANGED <<platform, config, now, isMonitoring, monitoringInterval, timers,
                 lastConnections, listeners, cycles, dnsCache, calls, lastEmit,
                 lastSeen, lastLookup>>

NextSocket ==
  \/ OnOpen
  \/ OnClose
  \/ OnError
  \/ \E throws \in BOOLEAN : ReconnectTimer(throws)
  \/ Close

\* the page's client on its own, with any sequence of socket events, timers
\* and close() calls
SpecSocket == InitDedup /\ [][NextSocket]_vars

\* C39: reconnectAttempts always stays between 0 and maxReconnectAttempts, it
\* is 0 after every open event, and no step that starts with reconnectAttempts
\* at the maximum schedules a reconnect timer
C39_ReconnectAttemptsBounded ==
  /\ [](wsClient.reconnectAttempts \in 0..maxReconnectAttempts)
  /\ [][/\ ev'.op = "onopen" => wsClient'.reconnectAttempts = 0
        /\ wsClient.reconnectAttempts = maxReconnectAttempts =>
             wsClient'.timers <= wsClient.timers]_vars

\* a socket closes when the attempts are at the maximum and the last timer is
\* spent: nothing is scheduled
C39_Witness ==
  /\ ev.op = "onclose"
  /\ wsClient.reconnectAttempts = maxReconnectAttempts
  /\ wsClient.timers = 0

=============================================================================
